---- MODULE Spec2Model ----
(***************************************************************************)
(* Scheduler monitoring system: the scheduler state engine                 *)
(* (SchedulerService over the DynamoDB scheduler and status-history        *)
(* tables), the staleness query and the stale sweep of the Slack worker.   *)
(*                                                                         *)
(* Time is counted in minutes on the process clock.  An attribute that a   *)
(* DynamoDB item may lack, and a JavaScript value that may be undefined,   *)
(* is a set with at most one element: None is undefined / absent,          *)
(* Some(v) is the value v.                                                 *)
(***************************************************************************)
EXTENDS Integers, Sequences, FiniteSets, TLC

\* ------------------------------------------------------------------ bounds
\* Number of API calls (Register, ReportStatus, RecordHeartbeat) in a run.
MaxCalls == 3
\* Last minute the clock reaches in the API specification.
MaxNow == 1
\* Number of calls that overlap, and the last minute of the clock, in the
\* specification of overlapping calls.
MaxOverlap == 3
MaxNowOverlap == 1
\* In the sweep specification: the number of API calls, the minutes the clock
\* runs after its start, and the number of sweeps.
MaxCallsSweep == 3
MaxElapsed == 11
MaxSweeps == 1
\* In the worker specification: the last hour of a day at which the timers
\* are followed, the number of days after the first, the last hour of the
\* first day at which services call the API, and the number of store and
\* channel calls that fail.
MaxHour == 7
MaxDays == 1
MaxApiHour == 0
MaxFailures == 2
\* In the query specification: the number of calls that write.
MaxCallsRead == 4
\* In the cleanup specification: the number of API calls, and the number of
\* days after the first.
MaxCallsCleanup == 2
MaxCleanupDays == 31
\* In the liveness specification: the number of API calls, and the last
\* minute the clock reaches.
MaxCallsLive == 4
MaxLiveMinute == 20
\* In the writes specification: the number of calls that overlap.
MaxWrites == 2

\* ------------------------------------------------------ configuration
\* HEARTBEAT_TIMEOUT_MINUTES, SLACK_START_HOUR and SLACK_END_HOUR, at their
\* defaults.
HeartbeatTimeoutMinutes == 10
StartHour == 0
EndHour == 6
\* The hours of the cron expressions '0 0 * * *' and '0 6 * * *'.
OpenCronHour == 0
CloseCronHour == 6
\* The default limit of findBySchedulerId.
DefaultHistoryLimit == 50
\* The hour of the cron expression '0 23 * * *', and the days by which
\* cleanupOldHistory sets its cutoff date back.
CleanupCronHour == 23
RetentionDays == 30

\* ------------------------------------------------------------- value sets
None == {}
Some(v) == {v}
Opt(S) == {None} \cup {Some(v) : v \in S}
\* The value of a present attribute.
Val(o) == CHOOSE v \in o : TRUE

\* The ids of the API specification, and those of the sweep specification.
Ids == {"svc-a-eod"}
SweepIds == {"svc-a-eod"}
\* The ids of the worker specification, in the order the services start.
WorkerIds == <<"svc-a-eod", "svc-b-eod">>
AllIds == Ids \cup SweepIds \cup {WorkerIds[i] : i \in DOMAIN WorkerIds}

PENDING == "pending"
RUNNING == "running"
COMPLETED == "completed"
FAILED == "failed"
SchedulerStatus == {PENDING, RUNNING, COMPLETED, FAILED}

\* The inputs of the calls.  A call names its service and job together, gives
\* its contact attributes together or not at all, and carries its optional
\* results (execution time, error message, metadata) together or not at all.
Names == {[service_name |-> "Service A", job_name |-> "EOD"],
          [service_name |-> "Service B", job_name |-> "EOD v2"]}
Contacts == {[owner_email |-> None, alert_user_id |-> None],
             [owner_email |-> Some("owner@example.com"),
              alert_user_id |-> Some("U123")]}
Payloads == {[execution_time_ms |-> None, error_message |-> None,
              metadata |-> None],
             [execution_time_ms |-> Some(15000),
              error_message |-> Some("timeout"),
              metadata |-> Some("records_processed=1000")]}

\* An ISO-8601 timestamp sent by a client: a wall-clock minute and the UTC
\* offset written after it.  Two different strings may name the same instant.
ClientTimestamps == {<<2, 1>>, <<2, 0>>}

\* new Date(dto.timestamp): the instant the string denotes.
ParseDate(ts) == ts[1] - ts[2]

\* ------------------------------------------------------------------ state
VARIABLES
    now,            \* the process clock, in minutes
    enabled,        \* SlackNotificationService.enabled (SLACK_ENABLED)
    config,         \* the worker's window hours, and the process's timezone
    schedulers,     \* the schedulers table: scheduler_id -> item
    history,        \* the status-history table: <<scheduler_id, timestamp>> -> item
    nextUuid,       \* the next value uuidv4() returns (each call is fresh)
    notifications,  \* the calls made to the notification service, in order
    last,           \* the API call that completed last: operation, input, outcome
    okReports,      \* per id, how many ReportStatus calls returned a scheduler
    nCalls,         \* how many API calls were made
    calls,          \* the overlapping calls, each with the place it has reached
    staleQuery,     \* the findStaleSchedulers query made last: input and answer
    sweep,          \* the stale sweep run last, and how many have run
    currentMessageTs, \* SlackWorkerService.currentMessageTs (None is null)
    nextTs,         \* the ts Slack gives the next message posted
    fired,          \* the timers that have fired at the current time point
    run,            \* the trigger run last: its calls in order, and how it ended
    nFailures       \* how many store and channel calls of the worker failed

vars == <<now, enabled, config, schedulers, history, nextUuid, notifications, last,
          okReports, nCalls, calls, staleQuery, sweep, currentMessageTs,
          nextTs, fired, run, nFailures>>

\* The worker's message cycle.
cycleVars == <<currentMessageTs, nextTs, fired, nFailures>>

\* The variables only the staleness query and the worker write.
workerVars == <<staleQuery, sweep, run, cycleVars>>

\* --------------------------------------------------------------- entities
SchedulerAttrs == {"scheduler_id", "service_name", "job_name", "status",
                   "timestamp", "execution_time_ms", "error_message",
                   "metadata", "last_heartbeat", "created_at", "updated_at",
                   "owner_email", "alert_user_id"}

\* new Scheduler(partial): the attributes of partial, the others undefined.
Scheduler(partial) ==
    [k \in SchedulerAttrs |-> IF k \in DOMAIN partial THEN partial[k] ELSE None]

RegisterDtos(id) ==
    {[scheduler_id |-> id, service_name |-> n.service_name,
      job_name |-> n.job_name, owner_email |-> c.owner_email,
      alert_user_id |-> c.alert_user_id] : n \in Names, c \in Contacts}

UpdateStatusDtos(id) ==
    {[scheduler_id |-> id, service_name |-> n.service_name,
      job_name |-> n.job_name, status |-> st, timestamp |-> ts,
      execution_time_ms |-> p.execution_time_ms,
      error_message |-> p.error_message, metadata |-> p.metadata] :
        n \in Names, st \in SchedulerStatus, ts \in ClientTimestamps,
        p \in Payloads}

\* ---------------------------------------------- scheduler repository
\* UpdateItem addresses the item by its key, and works on an empty item under
\* that key when the table has none.
ItemOrBlank(table, id) ==
    IF id \in DOMAIN table THEN table[id]
    ELSE [k \in SchedulerAttrs |-> IF k = "scheduler_id" THEN Some(id) ELSE None]

\* A findById that never answers null.
FindByIdNeverNull(table, id) == Some(ItemOrBlank(table, id))

\* findById: the item of the key, or null.
FindById(table, id) == IF id \in DOMAIN table THEN Some(table[id]) ELSE None

\* create: a put under the condition attribute_not_exists(scheduler_id).
\* The item takes created_at and updated_at from the repository's clock.
CreateItem(scheduler, t) ==
    [scheduler EXCEPT !["created_at"] = Some(t), !["updated_at"] = Some(t)]

CreateSucceeds(table, scheduler) == Val(scheduler.scheduler_id) \notin DOMAIN table

PutScheduler(table, item) ==
    [k \in DOMAIN table \cup {Val(item.scheduler_id)} |->
        IF k = Val(item.scheduler_id) THEN item ELSE table[k]]

\* update: SET updated_at and every attribute of updates whose value is not
\* undefined; scheduler_id is never set.  The result is the item afterwards
\* (ReturnValues ALL_NEW).
SetsAttribute(k, value) == k # "scheduler_id" /\ value # None

\* An update that writes the item anew, created_at included.
ApplyUpdatesRecreating(item, updates, t) ==
    [k \in SchedulerAttrs |->
        IF k \in {"updated_at", "created_at"} THEN Some(t)
        ELSE IF k \in DOMAIN updates /\ SetsAttribute(k, updates[k])
             THEN updates[k]
             ELSE item[k]]

\* An update that puts the item anew from the attributes it was handed.
ApplyUpdatesReplacing(item, updates, t) ==
    [k \in SchedulerAttrs |->
        IF k = "updated_at" THEN Some(t)
        ELSE IF k = "scheduler_id" THEN item[k]
        ELSE IF k \in DOMAIN updates THEN updates[k]
        ELSE None]

ApplyUpdates(item, updates, t) ==
    [k \in SchedulerAttrs |->
        IF k = "updated_at" THEN Some(t)
        ELSE IF k \in DOMAIN updates /\ SetsAttribute(k, updates[k])
             THEN updates[k]
             ELSE item[k]]

\* A heartbeat that also marks the scheduler running.
HeartbeatItemMarksRunning(item, t) ==
    [item EXCEPT !["last_heartbeat"] = Some(t), !["updated_at"] = Some(t),
                 !["status"] = Some(RUNNING)]

\* updateHeartbeat: SET last_heartbeat = :timestamp, updated_at = :timestamp.
HeartbeatItem(item, t) ==
    [item EXCEPT !["last_heartbeat"] = Some(t), !["updated_at"] = Some(t)]

\* toISOString: the date, the hour and the minute in fields of fixed width,
\* so that strings compare field by field from the left.
ToISOString(t) == <<t \div 1440, (t \div 60) % 24, t % 60>>

\* The order of two such strings.
StringLess(a, b) ==
    \E i \in 1..3 : a[i] < b[i] /\ \A j \in 1..(i - 1) : a[j] = b[j]

\* A filter that takes a heartbeat at the threshold for an old one.
StaleFilterInclusive(item, threshold) ==
    /\ item.status = Some(RUNNING)
    /\ item.last_heartbeat # None
    /\ ~StringLess(ToISOString(threshold), ToISOString(Val(item.last_heartbeat)))

\* findStaleSchedulers' filter: #status = :running AND last_heartbeat <
\* :threshold.  A comparison with an attribute the item lacks is false.
StaleFilter(item, threshold) ==
    /\ item.status = Some(RUNNING)
    /\ item.last_heartbeat # None
    /\ StringLess(ToISOString(Val(item.last_heartbeat)), ToISOString(threshold))

\* Scheduler.isStale(timeoutMinutes) at time t: false without a last_heartbeat,
\* else whether now - last_heartbeat, in milliseconds, exceeds the timeout.
IsStale(item, timeoutMinutes, t) ==
    IF item.last_heartbeat = None THEN FALSE
    ELSE (t - Val(item.last_heartbeat)) * 60 * 1000 > timeoutMinutes * 60 * 1000

\* A scan that asks for old heartbeats only, whatever the status.
FindStaleSchedulersAnyStatus(table, timeoutMinutes, t) ==
    {id \in DOMAIN table :
        /\ table[id].last_heartbeat # None
        /\ StringLess(ToISOString(Val(table[id].last_heartbeat)),
                      ToISOString(t - timeoutMinutes))}

\* findStaleSchedulers at time t: the ids of the items the scan returns.
FindStaleSchedulers(table, timeoutMinutes, t) ==
    {id \in DOMAIN table : StaleFilter(table[id], t - timeoutMinutes)}

\* ------------------------------------------- status-history repository
\* A table whose key is the generated id of the entry.
HistoryKeyById(item) == <<Val(item.scheduler_id), Val(item.id)>>

\* The table's key is (scheduler_id HASH, timestamp RANGE).
HistoryKey(item) == <<Val(item.scheduler_id), Val(item.timestamp)>>

\* createStatusHistory + create: a snapshot of the scheduler just returned by
\* the update, under a fresh id.
HistoryItem(scheduler, uuid) ==
    [id |-> Some(uuid),
     scheduler_id |-> scheduler.scheduler_id,
     status |-> scheduler.status,
     timestamp |-> scheduler.timestamp,
     execution_time_ms |-> scheduler.execution_time_ms,
     error_message |-> scheduler.error_message,
     metadata |-> scheduler.metadata]

\* put without a condition: an item with the same key is replaced.
PutHistory(table, item) ==
    [k \in DOMAIN table \cup {HistoryKey(item)} |->
        IF k = HistoryKey(item) THEN item ELSE table[k]]

HistoryOf(id) == {k \in DOMAIN history : k[1] = id}

\* ------------------------------------------------- notification service
\* One call of the notification service: what was asked, and whether the
\* Slack post was made, skipped (service disabled) or failed.
Notification(kind, scheduler, result) ==
    [kind |-> kind, scheduler_id |-> Val(scheduler.scheduler_id), result |-> result]

\* An alert that always addresses the channel.
UserMentionBroadcast(scheduler) == <<"@channel">>

\* sendFailedJobAlert's addressee: <@alert_user_id> when the scheduler has an
\* alert_user_id, else @channel.
UserMention(scheduler) ==
    IF scheduler.alert_user_id # None
    THEN <<"<@", Val(scheduler.alert_user_id), ">">>
    ELSE <<"@channel">>

\* The blocks of a failed-job alert: the fields of the scheduler, a section
\* with its error message when it has one, and the line to the addressee.
FailedJobAlertBlocks(scheduler) ==
    [service_name |-> scheduler.service_name,
     job_name |-> scheduler.job_name,
     status |-> scheduler.status,
     error_message |-> scheduler.error_message,
     mention |-> UserMention(scheduler)]

\* A call of sendFailedJobAlert: a disabled service returns before it builds
\* the blocks.
FailedJobAlert(scheduler, result) ==
    [kind |-> "failed_job", scheduler_id |-> Val(scheduler.scheduler_id),
     result |-> result,
     blocks |-> IF result = "skipped" THEN None
                ELSE Some(FailedJobAlertBlocks(scheduler))]

\* An alert for every status but completed.
AlertsOnStatusNotCompleted(status) == status # COMPLETED

\* updateStatus alerts when the reported status is failed.
AlertsOnStatus(status) == status = FAILED

\* The results sendFailedJobAlert can have: it returns at once when the
\* service is disabled, and otherwise posts, which succeeds or throws.
AlertResults == IF enabled THEN {"posted", "failed"} ELSE {"skipped"}

\* ---------------------------------------------------- scheduler service
\* A re-registration that starts the scheduler over.
RegisterUpdatesResetStatus(dto) ==
    [service_name |-> Some(dto.service_name),
     job_name |-> Some(dto.job_name),
     owner_email |-> dto.owner_email,
     alert_user_id |-> dto.alert_user_id,
     status |-> Some(PENDING)]

\* registerScheduler on an existing id: the attributes it hands to update.
RegisterUpdates(dto) ==
    [service_name |-> Some(dto.service_name),
     job_name |-> Some(dto.job_name),
     owner_email |-> dto.owner_email,
     alert_user_id |-> dto.alert_user_id]

\* registerScheduler on a new id: the entity it hands to create.
NewScheduler(dto, t) ==
    Scheduler([scheduler_id |-> Some(dto.scheduler_id),
               service_name |-> Some(dto.service_name),
               job_name |-> Some(dto.job_name),
               status |-> Some(PENDING),
               timestamp |-> Some(t),
               created_at |-> Some(t),
               updated_at |-> Some(t),
               owner_email |-> dto.owner_email,
               alert_user_id |-> dto.alert_user_id])

\* A status update that is no sign of life.
StatusUpdatesWithoutHeartbeat(dto, t) ==
    [service_name |-> Some(dto.service_name),
     job_name |-> Some(dto.job_name),
     status |-> Some(dto.status),
     timestamp |-> Some(ParseDate(dto.timestamp)),
     execution_time_ms |-> dto.execution_time_ms,
     error_message |-> dto.error_message,
     metadata |-> dto.metadata]

\* updateStatus: the attributes it hands to update.
StatusUpdates(dto, t) ==
    [service_name |-> Some(dto.service_name),
     job_name |-> Some(dto.job_name),
     status |-> Some(dto.status),
     timestamp |-> Some(ParseDate(dto.timestamp)),
     execution_time_ms |-> dto.execution_time_ms,
     error_message |-> dto.error_message,
     metadata |-> dto.metadata,
     last_heartbeat |-> Some(t)]

\* The outcome of a call: what it was, and what it gave back to its caller.
Outcome(op, id, dto, outcome, returned) ==
    [op |-> op, id |-> id, outcome |-> outcome, dto |-> dto, returned |-> returned]

\* ------------------------------------------------------------------- Init
NoCall == [op |-> "none", id |-> "", outcome |-> "none", dto |-> None,
           returned |-> None]

\* No trigger has run.
NoRun == [trigger |-> "none", calls |-> <<>>, outcome |-> "none"]

\* The configuration of the worker: SLACK_START_HOUR and SLACK_END_HOUR, and
\* the hours by which the local time of the process is ahead of Asia/Jakarta,
\* the timezone of the timers, modulo a day.
Config(startHour, endHour, tzOffset) ==
    [startHour |-> startHour, endHour |-> endHour, tzOffset |-> tzOffset]

\* The window at its defaults, in a process whose timezone is Asia/Jakarta.
DefaultConfig == Config(StartHour, EndHour, 0)

\* The state when the process has started at minute t with the configuration
\* c, on empty tables.
StartWith(t, c) ==
    /\ now = t
    /\ enabled \in BOOLEAN
    /\ config = c
    /\ schedulers = <<>>
    /\ history = <<>>
    /\ nextUuid = 1
    /\ notifications = <<>>
    /\ last = NoCall
    /\ okReports = [id \in AllIds |-> 0]
    /\ nCalls = 0
    /\ calls = <<>>
    /\ staleQuery = [seq |-> 0, timeoutMinutes |-> 0, result |-> {}]
    /\ sweep = [n |-> 0, ran |-> FALSE, stale |-> {}]
    /\ currentMessageTs = None
    /\ nextTs = 1
    /\ fired = {}
    /\ run = NoRun
    /\ nFailures = 0

\* The state when the process has started at minute t at its defaults.
Start(t) == StartWith(t, DefaultConfig)

Init == Start(0)

\* ---------------------------------------------------------------- actions
\* The clock advances by a minute.
Tick ==
    /\ now < MaxNow
    /\ now' = now + 1
    /\ UNCHANGED <<enabled, config, schedulers, history, nextUuid, notifications, last,
                   okReports, nCalls, calls, workerVars>>

\* SchedulerService.registerScheduler, called with dto.
DoRegister(dto) ==
    /\ nCalls' = nCalls + 1
    /\ LET id == dto.scheduler_id
           existing == FindById(schedulers, id)
           updated == ApplyUpdates(ItemOrBlank(schedulers, id),
                                   RegisterUpdates(dto), now)
           created == CreateItem(NewScheduler(dto, now), now)
       IN  IF existing # None
           THEN /\ schedulers' = PutScheduler(schedulers, updated)
                /\ last' = Outcome("Register", id, Some(dto), "ok", Some(updated))
           ELSE \* nothing runs between findById and create: the put's
                \* condition holds
                /\ schedulers' = PutScheduler(schedulers, created)
                /\ last' = Outcome("Register", id, Some(dto), "ok", Some(created))
    /\ UNCHANGED <<now, enabled, config, history, nextUuid, notifications, okReports,
                   calls, workerVars>>

\* SchedulerService.updateStatus, called with dto.
DoReportStatus(dto) ==
    /\ nCalls' = nCalls + 1
    /\ LET id == dto.scheduler_id
           existing == FindById(schedulers, id)
           updatedScheduler == ApplyUpdates(ItemOrBlank(schedulers, id),
                                            StatusUpdates(dto, now), now)
       IN  IF existing = None
           THEN \* throw new NotFoundException
                /\ last' = Outcome("ReportStatus", id, Some(dto), "NotFound", None)
                /\ UNCHANGED <<schedulers, history, nextUuid, notifications,
                               okReports>>
           ELSE /\ schedulers' = PutScheduler(schedulers, updatedScheduler)
                /\ history' = PutHistory(history,
                                  HistoryItem(updatedScheduler, nextUuid))
                /\ nextUuid' = nextUuid + 1
                /\ IF AlertsOnStatus(dto.status)
                   THEN \* handleFailedJob: an error of the alert is rethrown
                        \E result \in AlertResults :
                           /\ notifications' = Append(notifications,
                                  FailedJobAlert(updatedScheduler, result))
                           /\ IF result = "failed"
                              THEN /\ last' = Outcome("ReportStatus", id, Some(dto),
                                                      "DeliveryFailure", None)
                                   /\ UNCHANGED okReports
                              ELSE /\ last' = Outcome("ReportStatus", id, Some(dto),
                                                      "ok", Some(updatedScheduler))
                                   /\ okReports' = [okReports EXCEPT ![id] = @ + 1]
                   ELSE /\ UNCHANGED notifications
                        /\ last' = Outcome("ReportStatus", id, Some(dto), "ok",
                                           Some(updatedScheduler))
                        /\ okReports' = [okReports EXCEPT ![id] = @ + 1]
    /\ UNCHANGED <<now, enabled, config, calls, workerVars>>

\* SchedulerService.updateHeartbeat, called with id.
DoRecordHeartbeat(id) ==
    /\ nCalls' = nCalls + 1
    /\ LET existing == FindById(schedulers, id)
       IN  IF existing = None
           THEN \* throw new NotFoundException
                /\ last' = Outcome("RecordHeartbeat", id, None, "NotFound", None)
                /\ UNCHANGED schedulers
           ELSE /\ schedulers' = PutScheduler(schedulers,
                                     HeartbeatItem(ItemOrBlank(schedulers, id), now))
                /\ last' = Outcome("RecordHeartbeat", id, None, "ok", None)
    /\ UNCHANGED <<now, enabled, config, history, nextUuid, notifications, okReports,
                   calls, workerVars>>

\* The API, one call at a time.
Register(id) ==
    /\ nCalls < MaxCalls
    /\ \E dto \in RegisterDtos(id) : DoRegister(dto)

ReportStatus(id) ==
    /\ nCalls < MaxCalls
    /\ \E dto \in UpdateStatusDtos(id) : DoReportStatus(dto)

RecordHeartbeat(id) ==
    /\ nCalls < MaxCalls
    /\ DoRecordHeartbeat(id)

Next ==
    \/ Tick
    \/ \E id \in Ids : Register(id)
    \/ \E id \in Ids : ReportStatus(id)
    \/ \E id \in Ids : RecordHeartbeat(id)

Spec == Init /\ [][Next]_vars

\* ------------------------------------------------- overlapping calls
\* registerScheduler step by step.  A call suspends at each store request:
\* the get of findById executes, the call resumes with its answer and sends
\* its write with the timestamps it takes then, and the write executes.
ClockStep ==
    /\ now < MaxNowOverlap
    /\ now' = now + 1
    /\ UNCHANGED <<enabled, config, schedulers, history, nextUuid, notifications, last,
                   okReports, nCalls, calls, workerVars>>

RegisterCall(id) ==
    \E dto \in RegisterDtos(id) :
        /\ Len(calls) < MaxOverlap
        /\ calls' = Append(calls, [op |-> "Register", pc |-> "findById",
                                   dto |-> dto, existing |-> None, t |-> 0,
                                   outcome |-> "none", returned |-> None])
        /\ UNCHANGED <<now, enabled, config, schedulers, history, nextUuid,
                       notifications, last, okReports, nCalls, workerVars>>

\* The get of findById executes at the store.
RegisterFindById(i) ==
    /\ calls[i].op = "Register"
    /\ calls[i].pc = "findById"
    /\ calls' = [calls EXCEPT ![i].pc = "resume",
                              ![i].existing =
                                  FindById(schedulers, calls[i].dto.scheduler_id)]
    /\ UNCHANGED <<now, enabled, config, schedulers, history, nextUuid, notifications,
                   last, okReports, nCalls, workerVars>>

\* The call resumes: if (existing) it sends the update, else the put.
RegisterResume(i) ==
    /\ calls[i].op = "Register"
    /\ calls[i].pc = "resume"
    /\ calls' = [calls EXCEPT ![i].pc = IF calls[i].existing # None
                                        THEN "update" ELSE "create",
                              ![i].t = now]
    /\ UNCHANGED <<now, enabled, config, schedulers, history, nextUuid, notifications,
                   last, okReports, nCalls, workerVars>>

\* The UpdateItem of update executes at the store.
RegisterUpdate(i) ==
    /\ calls[i].op = "Register"
    /\ calls[i].pc = "update"
    /\ LET dto == calls[i].dto
           updated == ApplyUpdates(ItemOrBlank(schedulers, dto.scheduler_id),
                                   RegisterUpdates(dto), calls[i].t)
       IN  /\ schedulers' = PutScheduler(schedulers, updated)
           /\ calls' = [calls EXCEPT ![i].pc = "done", ![i].outcome = "ok",
                                     ![i].returned = Some(updated)]
    /\ UNCHANGED <<now, enabled, config, history, nextUuid, notifications, last,
                   okReports, nCalls, workerVars>>

\* The conditional put of create executes at the store; when its condition
\* fails the error is the call's result.
RegisterCreate(i) ==
    /\ calls[i].op = "Register"
    /\ calls[i].pc = "create"
    /\ LET dto == calls[i].dto
           created == CreateItem(NewScheduler(dto, calls[i].t), calls[i].t)
       IN  IF CreateSucceeds(schedulers, created)
           THEN /\ schedulers' = PutScheduler(schedulers, created)
                /\ calls' = [calls EXCEPT ![i].pc = "done", ![i].outcome = "ok",
                                          ![i].returned = Some(created)]
           ELSE /\ calls' = [calls EXCEPT ![i].pc = "done",
                                          ![i].outcome = "ConditionalCheckFailed"]
                /\ UNCHANGED schedulers
    /\ UNCHANGED <<now, enabled, config, history, nextUuid, notifications, last,
                   okReports, nCalls, workerVars>>

NextOverlap ==
    \/ ClockStep
    \/ \E id \in Ids : RegisterCall(id)
    \/ \E i \in DOMAIN calls : RegisterFindById(i)
    \/ \E i \in DOMAIN calls : RegisterResume(i)
    \/ \E i \in DOMAIN calls : RegisterUpdate(i)
    \/ \E i \in DOMAIN calls : RegisterCreate(i)

SpecOverlap == Init /\ [][NextOverlap]_vars

\* ------------------------------------------- staleness query and sweep
\* The sweep specification: the API, a clock that starts at 00:00 or at 06:50
\* and is read at the start and from nine minutes later on, the staleness
\* query, and the sweep the worker runs every five minutes.
StartTimes == {0, 410}
Timeouts == {1, HeartbeatTimeoutMinutes}

StartOf(t) == CHOOSE st \in StartTimes : st <= t /\ t <= st + MaxElapsed

\* The minutes after the start at which something happens.
Elapsed == {0} \cup 9..MaxElapsed

SweepRegisterDtos(id) ==
    {[scheduler_id |-> id, service_name |-> "Service A", job_name |-> "EOD",
      owner_email |-> None, alert_user_id |-> None]}

SweepStatusDtos(id) ==
    {[scheduler_id |-> id, service_name |-> "Service A", job_name |-> "EOD",
      status |-> st, timestamp |-> <<2, 0>>, execution_time_ms |-> None,
      error_message |-> None, metadata |-> None] : st \in SchedulerStatus}

InitSweep == \E t \in StartTimes : Start(t)

SweepTick ==
    \E e \in Elapsed :
        /\ StartOf(now) + e > now
        /\ \A e2 \in Elapsed : StartOf(now) + e2 > now => e <= e2
        /\ now' = StartOf(now) + e
        /\ UNCHANGED <<enabled, config, schedulers, history, nextUuid, notifications,
                       last, okReports, nCalls, calls, workerVars>>

SweepRegister(id) ==
    /\ nCalls < MaxCallsSweep
    /\ \E dto \in SweepRegisterDtos(id) : DoRegister(dto)

SweepReportStatus(id) ==
    /\ nCalls < MaxCallsSweep
    /\ \E dto \in SweepStatusDtos(id) : DoReportStatus(dto)

SweepRecordHeartbeat(id) ==
    /\ nCalls < MaxCallsSweep
    /\ DoRecordHeartbeat(id)

\* ISchedulerRepository.findStaleSchedulers(timeoutMinutes).
FindStale ==
    \E timeoutMinutes \in Timeouts :
        /\ staleQuery' = [seq |-> 1 - staleQuery.seq,
                          timeoutMinutes |-> timeoutMinutes,
                          result |-> FindStaleSchedulers(schedulers,
                                                         timeoutMinutes, now)]
        /\ UNCHANGED <<now, enabled, config, schedulers, history, nextUuid,
                       notifications, last, okReports, nCalls, calls, sweep,
                       run, cycleVars>>

\* The hour of minute t in Asia/Jakarta, the timezone of the timers.
HourOf(t) == (t \div 60) % 24

\* new Date().getHours(): the hour of minute t in the timezone of the process.
GetHours(t) == (HourOf(t) + config.tzOffset) % 24

\* The sweep's gate: it returns when currentHour < startHour or currentHour >
\* endHour.
InWindow(currentHour) ==
    ~(currentHour < config.startHour \/ currentHour > config.endHour)

\* The orders in which a scan may return the items of ids.
Orders(ids) ==
    {o \in [1..Cardinality(ids) -> ids] : \A i, j \in DOMAIN o : o[i] = o[j] => i = j}

\* The calls of sendTimeoutWarning a sweep makes for the schedulers of order:
\* one each, until one throws, which ends the loop.
WarningRuns(table, order) ==
    LET Warning(i, result) == Notification("timeout_warning", table[order[i]], result)
    IN  IF ~enabled
        THEN {[i \in DOMAIN order |-> Warning(i, "skipped")]}
        ELSE {[i \in DOMAIN order |-> Warning(i, "posted")]} \cup
             {[i \in 1..f |-> Warning(i, IF i = f THEN "failed" ELSE "posted")] :
                 f \in DOMAIN order}

\* A sweep that fails the jobs it finds stale.
TableAfterSweepFailingStale(table, stale) ==
    [id \in DOMAIN table |->
        IF id \in stale THEN [table[id] EXCEPT !["status"] = Some(FAILED)]
        ELSE table[id]]

\* The schedulers table after a sweep over the stale schedulers: the sweep
\* makes no write.
TableAfterSweep(table, stale) == table

\* One store or channel call of a trigger: which, the message handle it was
\* given or returned (if any), and whether it succeeded, failed or was skipped
\* by a disabled notification service.
Call(call, handle, result) == [call |-> call, handle |-> handle, result |-> result]

Failures(cs) == Cardinality({i \in DOMAIN cs : cs[i].result = "failed"})

\* A try block that leaves the store calls outside.
InTryChannelOnly(trigger, call) ==
    call \notin {"findAll", "findStaleSchedulers"}

\* Whether the handler of trigger makes call inside its try block: every
\* handler makes all its store and channel calls inside one.
InTry(trigger, call) == TRUE

\* How a run of trigger that made the calls cs ends for the timer: an error
\* thrown outside a try block leaves the handler.
RunOutcome(trigger, cs) ==
    IF \E i \in DOMAIN cs : cs[i].result = "failed" /\ ~InTry(trigger, cs[i].call)
    THEN "threw" ELSE "returned"

Run(trigger, cs) ==
    [trigger |-> trigger, calls |-> cs, outcome |-> RunOutcome(trigger, cs)]

\* SlackWorkerService.checkStaleSchedulers.
DoCheckStaleSchedulers ==
    /\ IF ~InWindow(GetHours(now))
       THEN /\ sweep' = [n |-> sweep.n + 1, ran |-> FALSE, stale |-> {}]
            /\ run' = Run("D", <<>>)
            /\ UNCHANGED <<schedulers, notifications>>
       ELSE \/ \* findStaleSchedulers throws
               /\ sweep' = [n |-> sweep.n + 1, ran |-> TRUE, stale |-> {}]
               /\ run' = Run("D", <<Call("findStaleSchedulers", None, "failed")>>)
               /\ UNCHANGED <<schedulers, notifications>>
            \/ LET stale == FindStaleSchedulers(schedulers,
                                                HeartbeatTimeoutMinutes, now)
               IN  /\ sweep' = [n |-> sweep.n + 1, ran |-> TRUE, stale |-> stale]
                   /\ schedulers' = TableAfterSweep(schedulers, stale)
                   /\ \E order \in Orders(stale) :
                         \E warnings \in WarningRuns(schedulers, order) :
                            /\ notifications' = notifications \o warnings
                            /\ run' = Run("D",
                                   <<Call("findStaleSchedulers", None, "ok")>> \o
                                   [i \in DOMAIN warnings |->
                                       Call("sendTimeoutWarning", None,
                                            warnings[i].result)])
    /\ UNCHANGED <<now, enabled, config, history, nextUuid, last, okReports, nCalls,
                   calls, staleQuery>>

\* The sweep, every five minutes.
CheckStaleSchedulers ==
    /\ sweep.n < MaxSweeps
    /\ DoCheckStaleSchedulers
    /\ UNCHANGED cycleVars

NextSweep ==
    \/ SweepTick
    \/ \E id \in SweepIds : SweepRegister(id)
    \/ \E id \in SweepIds : SweepReportStatus(id)
    \/ \E id \in SweepIds : SweepRecordHeartbeat(id)
    \/ FindStale
    \/ CheckStaleSchedulers

SpecSweep == InitSweep /\ [][NextSweep]_vars

\* ------------------------------------------------ the worker's triggers
\* The worker specification: the four timers of SlackWorkerService over days
\* of hourly time points, with services that register and report once each
\* early on the first day.  A trigger run is one step; at most MaxFailures
\* store and channel calls fail.
WorkerStatuses == {RUNNING, COMPLETED}

WorkerRegisterDtos(id) ==
    {[scheduler_id |-> id, service_name |-> "Service A", job_name |-> "EOD",
      owner_email |-> None, alert_user_id |-> None]}

WorkerStatusDtos(id) ==
    {[scheduler_id |-> id, service_name |-> "Service A", job_name |-> "EOD",
      status |-> st, timestamp |-> <<2, 0>>, execution_time_ms |-> None,
      error_message |-> None, metadata |-> None] : st \in WorkerStatuses}

InitWorker == Start(0)

\* A refresh gate that lets the start hour in.
InRefreshWindowFromStart(currentHour) ==
    ~(currentHour < config.startHour \/ currentHour > config.endHour)

\* updateStatusTable's gate: it returns when currentHour <= startHour or
\* currentHour > endHour.
InRefreshWindow(currentHour) ==
    ~(currentHour <= config.startHour \/ currentHour > config.endHour)

\* sendFinalStatusSummary's decision: schedulers.every(isCompleted) and
\* schedulers.length > 0.
SendsAllClear(table) ==
    /\ \A id \in DOMAIN table : table[id].status = Some(COMPLETED)
    /\ DOMAIN table # {}

\* What a handler does in one run: the calls it makes, and the value of
\* currentMessageTs when it ends.
Effect(cs, ts) == [calls |-> cs, ts |-> ts]

\* A post whose handle is thrown away.
InitialStatusTableRunsForgetting(ts) ==
    IF ~enabled
    THEN {Effect(<<>>, ts)}
    ELSE {Effect(<<Call("findAll", None, "failed")>>, ts),
          Effect(<<Call("findAll", None, "ok"),
                   Call("sendStatusTable", None, "failed")>>, ts),
          Effect(<<Call("findAll", None, "ok"),
                   Call("sendStatusTable", Some(nextTs), "ok")>>, ts)}

\* sendInitialStatusTable, entered with currentMessageTs = ts: nothing when
\* the service is disabled; else findAll and sendStatusTable in one try block,
\* and the assignment of the returned ts when neither throws.
InitialStatusTableRuns(ts) ==
    IF ~enabled
    THEN {Effect(<<>>, ts)}
    ELSE {Effect(<<Call("findAll", None, "failed")>>, ts),
          Effect(<<Call("findAll", None, "ok"),
                   Call("sendStatusTable", None, "failed")>>, ts),
          Effect(<<Call("findAll", None, "ok"),
                   Call("sendStatusTable", Some(nextTs), "ok")>>, Some(nextTs))}

\* A catch block that keeps the handle.
TsAfterFailedRefreshKept(ts) == ts

\* updateStatusTable's catch block: this.currentMessageTs = null.
TsAfterFailedRefresh(ts) == None

\* A refresh that posts the table as a new message.
RefreshRunsPosting(ts) ==
    {Effect(<<Call("findAll", None, "failed")>>, TsAfterFailedRefresh(ts)),
     Effect(<<Call("findAll", None, "ok"),
              Call("sendStatusTable", None, "failed")>>, TsAfterFailedRefresh(ts)),
     Effect(<<Call("findAll", None, "ok"),
              Call("sendStatusTable", Some(nextTs), "ok")>>, Some(nextTs))}

\* updateStatusTable with a handle held: findAll and the edit of the held
\* message in one try block, whose catch block drops the handle.
RefreshRuns(ts) ==
    {Effect(<<Call("findAll", None, "failed")>>, TsAfterFailedRefresh(ts)),
     Effect(<<Call("findAll", None, "ok"),
              Call("updateStatusTable", ts, "failed")>>, TsAfterFailedRefresh(ts)),
     Effect(<<Call("findAll", None, "ok"),
              Call("updateStatusTable", ts, "ok")>>, ts)}

\* updateStatusTable at currentHour, entered with currentMessageTs = ts.
UpdateStatusTableRuns(ts, currentHour) ==
    IF ~enabled THEN {Effect(<<>>, ts)}
    ELSE IF ~InRefreshWindow(currentHour) THEN {Effect(<<>>, ts)}
    ELSE IF ts = None THEN InitialStatusTableRuns(ts)
    ELSE RefreshRuns(ts)

\* sendFinalStatusSummary over the records findAll returns, entered with
\* currentMessageTs = ts: findAll, the edit of the held message if there is
\* one, the all-clear summary if it is due, and then the reset of the handle,
\* all in one try block.
FinalStatusSummaryRuns(ts, table) ==
    IF ~enabled
    THEN {Effect(<<>>, ts)}
    ELSE LET read == <<Call("findAll", None, "ok")>>
             edit(result) == IF ts = None THEN <<>>
                             ELSE <<Call("updateStatusTable", ts, result)>>
             summary(result) == <<Call("sendAllClearSummary", None, result)>>
         IN  {Effect(<<Call("findAll", None, "failed")>>, ts)}
             \cup (IF ts # None THEN {Effect(read \o edit("failed"), ts)} ELSE {})
             \cup (IF SendsAllClear(table)
                   THEN {Effect(read \o edit("ok") \o summary("ok"), None),
                         Effect(read \o edit("ok") \o summary("failed"), ts)}
                   ELSE {Effect(read \o edit("ok"), None)})

\* The timers that fire at minute t: '0 0 * * *', EVERY_HOUR, '0 6 * * *'
\* and EVERY_5_MINUTES.
Due(t) ==
    (IF t % 60 = 0 /\ HourOf(t) = OpenCronHour THEN {"A"} ELSE {})
    \cup (IF t % 60 = 0 THEN {"B"} ELSE {})
    \cup (IF t % 60 = 0 /\ HourOf(t) = CloseCronHour THEN {"C"} ELSE {})
    \cup (IF t % 5 = 0 THEN {"D"} ELSE {})

\* What a run of the handler of trigger with the effect e does to the worker
\* and the channel.
TriggerEffect(trigger, e) ==
    /\ trigger \in Due(now) \ fired
    /\ fired' = fired \cup {trigger}
    /\ run' = Run(trigger, e.calls)
    /\ currentMessageTs' = e.ts
    /\ nextTs' = IF \E i \in DOMAIN e.calls :
                       e.calls[i].call = "sendStatusTable" /\ e.calls[i].result = "ok"
                 THEN nextTs + 1 ELSE nextTs
    /\ nFailures' = nFailures + Failures(e.calls)
    /\ nFailures' <= MaxFailures
    /\ UNCHANGED <<now, enabled, config, schedulers, history, nextUuid, notifications,
                   last, okReports, nCalls, staleQuery, sweep>>

\* A run of the handler of trigger with the effect e.
TriggerRun(trigger, e) ==
    /\ TriggerEffect(trigger, e)
    /\ UNCHANGED calls

\* Trigger A.
SendInitialStatusTable ==
    \E e \in InitialStatusTableRuns(currentMessageTs) : TriggerRun("A", e)

\* Trigger B.
UpdateStatusTable ==
    \E e \in UpdateStatusTableRuns(currentMessageTs, GetHours(now)) :
        TriggerRun("B", e)

\* Trigger C.
SendFinalStatusSummary ==
    \E e \in FinalStatusSummaryRuns(currentMessageTs, schedulers) :
        TriggerRun("C", e)

\* Trigger D.
StaleSweep ==
    /\ "D" \in Due(now) \ fired
    /\ fired' = fired \cup {"D"}
    /\ DoCheckStaleSchedulers
    /\ nFailures' = nFailures + Failures(run'.calls)
    /\ nFailures' <= MaxFailures
    /\ UNCHANGED <<currentMessageTs, nextTs>>

\* The next time point: the next hour up to MaxHour, then the next midnight.
\* Every timer due now has fired.  The log of notification calls starts anew.
WorkerTick ==
    /\ fired = Due(now)
    /\ IF HourOf(now) < MaxHour
       THEN now' = now + 60
       ELSE /\ now \div 1440 < MaxDays
            /\ now' = (now \div 1440 + 1) * 1440
    /\ fired' = {}
    /\ notifications' = <<>>
    /\ UNCHANGED <<enabled, config, schedulers, history, nextUuid, last, okReports,
                   nCalls, calls, staleQuery, sweep, run, currentMessageTs,
                   nextTs, nFailures>>

\* The services: each registers, in the order of WorkerIds, and reports once.
WorkerRegister(i) ==
    /\ now <= MaxApiHour * 60
    /\ WorkerIds[i] \notin DOMAIN schedulers
    /\ \A j \in 1..(i - 1) : WorkerIds[j] \in DOMAIN schedulers
    /\ \E dto \in WorkerRegisterDtos(WorkerIds[i]) : DoRegister(dto)

WorkerReportStatus(i) ==
    /\ now <= MaxApiHour * 60
    /\ WorkerIds[i] \in DOMAIN schedulers
    /\ okReports[WorkerIds[i]] = 0
    /\ \E dto \in WorkerStatusDtos(WorkerIds[i]) : DoReportStatus(dto)

NextWorker ==
    \/ WorkerTick
    \/ \E i \in DOMAIN WorkerIds : WorkerRegister(i)
    \/ \E i \in DOMAIN WorkerIds : WorkerReportStatus(i)
    \/ SendInitialStatusTable
    \/ UpdateStatusTable
    \/ SendFinalStatusSummary
    \/ StaleSweep

SpecWorker == InitWorker /\ [][NextWorker]_vars

\* ------------------------------------------ overlapping trigger runs
\* The cycle specification: the handlers of Triggers A, B and C step by step,
\* over the hourly time points of one day.  A handler runs to its next await
\* (a store or channel call) and suspends there; when the call returns, it
\* runs on to the next one.  Handlers of different timers interleave at these
\* points.  The calls of a handler return or throw within the hour.
CycleTriggers == {"A", "B", "C"}

\* The run of a handler: the body it executes, the call it is suspended at,
\* the handle it gave that call, what the records it read say about the
\* all-clear, and whether it has reset the handle.
HandlerRun(body, pc, handle, allClear, reset) ==
    [body |-> body, pc |-> pc, handle |-> handle, allClear |-> allClear,
     reset |-> reset]

\* The handlers that are suspended at a call.
Suspended == {t \in DOMAIN calls : calls[t].pc # "done"}

SetRun(trigger, r) ==
    [t \in DOMAIN calls \cup {trigger} |-> IF t = trigger THEN r ELSE calls[t]]

\* The body a handler enters, with the handle held when it is invoked:
\* sendInitialStatusTable's try block, updateStatusTable's, that of
\* sendFinalStatusSummary, or none when the handler returns at a guard.
BodyOf(trigger, ts, currentHour) ==
    IF ~enabled THEN "none"
    ELSE IF trigger = "A" THEN "initial"
    ELSE IF trigger = "C" THEN "final"
    ELSE IF ~InRefreshWindow(currentHour) THEN "none"
    ELSE IF ts = None THEN "initial"
    ELSE "refresh"

InitCycle == Start(0)

\* A timer fires: the handler runs to its first await, the findAll of its
\* try block, or returns at a guard.
Fire(trigger) ==
    /\ trigger \in (Due(now) \cap CycleTriggers) \ fired
    /\ fired' = fired \cup {trigger}
    /\ LET body == BodyOf(trigger, currentMessageTs, GetHours(now))
       IN  calls' = SetRun(trigger,
                       HandlerRun(body, IF body = "none" THEN "done" ELSE "findAll",
                                  None, FALSE, FALSE))
    /\ UNCHANGED <<now, enabled, config, schedulers, history, nextUuid, notifications,
                   last, okReports, nCalls, staleQuery, sweep, run,
                   currentMessageTs, nextTs, nFailures>>

\* The handler of trigger ends without touching the handle.
Ends(trigger) ==
    /\ calls' = SetRun(trigger, [calls[trigger] EXCEPT !.pc = "done"])
    /\ UNCHANGED <<currentMessageTs, nextTs>>

\* The handler of trigger makes call with handle and suspends.
Awaits(trigger, call, handle, allClear) ==
    /\ calls' = SetRun(trigger, [calls[trigger] EXCEPT !.pc = call,
                                                        !.handle = handle,
                                                        !.allClear = allClear])
    /\ UNCHANGED <<currentMessageTs, nextTs>>

\* The handler of trigger assigns ts to currentMessageTs and ends.
AssignsAndEnds(trigger, ts, reset) ==
    /\ calls' = SetRun(trigger, [calls[trigger] EXCEPT !.pc = "done",
                                                        !.reset = reset])
    /\ currentMessageTs' = ts
    /\ UNCHANGED nextTs

\* sendInitialStatusTable resumes after a call that returned.
InitialResumes(trigger) ==
    IF calls[trigger].pc = "findAll"
    THEN Awaits(trigger, "sendStatusTable", None, FALSE)
    ELSE \* this.currentMessageTs = messageTs
         /\ calls' = SetRun(trigger, [calls[trigger] EXCEPT !.pc = "done",
                                                             !.handle = Some(nextTs)])
         /\ currentMessageTs' = Some(nextTs)
         /\ nextTs' = nextTs + 1

\* updateStatusTable resumes after a call that returned: after findAll it
\* reads this.currentMessageTs and gives it to the edit.
RefreshResumes(trigger) ==
    IF calls[trigger].pc = "findAll"
    THEN Awaits(trigger, "updateStatusTable", currentMessageTs, FALSE)
    ELSE Ends(trigger)

\* sendFinalStatusSummary resumes after a call that returned.
FinalResumes(trigger) ==
    LET r == calls[trigger]
        allClear == IF r.pc = "findAll" THEN SendsAllClear(schedulers)
                    ELSE r.allClear
    IN  IF r.pc = "findAll" /\ currentMessageTs # None
        THEN Awaits(trigger, "updateStatusTable", currentMessageTs, allClear)
        ELSE IF r.pc \in {"findAll", "updateStatusTable"} /\ allClear
        THEN Awaits(trigger, "sendAllClearSummary", None, allClear)
        ELSE \* this.currentMessageTs = null
             AssignsAndEnds(trigger, None, TRUE)

\* The call a handler is suspended at returns.  An edit that was given no
\* handle is rejected by the channel.
Returns(trigger) ==
    /\ trigger \in Suspended
    /\ ~(calls[trigger].pc = "updateStatusTable" /\ calls[trigger].handle = None)
    /\ CASE calls[trigger].body = "initial" -> InitialResumes(trigger)
         [] calls[trigger].body = "refresh" -> RefreshResumes(trigger)
         [] calls[trigger].body = "final" -> FinalResumes(trigger)
    /\ UNCHANGED <<now, enabled, config, schedulers, history, nextUuid, notifications,
                   last, okReports, nCalls, staleQuery, sweep, run, fired,
                   nFailures>>

\* The call a handler is suspended at throws: the catch block of the body
\* runs, and the handler ends.  The rejection of an edit without a handle is
\* none of the faults counted.
Throws(trigger) ==
    /\ trigger \in Suspended
    /\ nFailures' = IF calls[trigger].pc = "updateStatusTable"
                        /\ calls[trigger].handle = None
                     THEN nFailures ELSE nFailures + 1
    /\ nFailures' <= MaxFailures
    /\ IF calls[trigger].body = "refresh"
       THEN AssignsAndEnds(trigger, TsAfterFailedRefresh(currentMessageTs), FALSE)
       ELSE Ends(trigger)
    /\ UNCHANGED <<now, enabled, config, schedulers, history, nextUuid, notifications,
                   last, okReports, nCalls, staleQuery, sweep, run, fired>>

\* The next hour of the day.  Every timer due now has fired, and every
\* handler has ended.
CycleTick ==
    /\ fired = Due(now) \cap CycleTriggers
    /\ Suspended = {}
    /\ HourOf(now) < MaxHour
    /\ now' = now + 60
    /\ fired' = {}
    /\ UNCHANGED <<enabled, config, schedulers, history, nextUuid, notifications, last,
                   okReports, nCalls, calls, staleQuery, sweep, run,
                   currentMessageTs, nextTs, nFailures>>

NextCycle ==
    \/ CycleTick
    \/ \E trigger \in CycleTriggers : Fire(trigger)
    \/ \E trigger \in CycleTriggers : Returns(trigger)
    \/ \E trigger \in CycleTriggers : Throws(trigger)
    \/ \E i \in DOMAIN WorkerIds : WorkerRegister(i)
    \/ \E i \in DOMAIN WorkerIds : WorkerReportStatus(i)

SpecCycle == InitCycle /\ [][NextCycle]_vars

\* ------------------------------------------------------- the queries
\* The query specification: the API with its three queries (Get, List and
\* History) on two ids.  A query changes nothing; what it gave back is kept
\* as the last outcome.
ReadIds == {"svc-a-eod", "svc-b-eod"}

ReadRegisterDtos(id) ==
    {[scheduler_id |-> id, service_name |-> n.service_name,
      job_name |-> n.job_name, owner_email |-> None, alert_user_id |-> None] :
        n \in Names}

\* A service reports that it runs, with the timestamp t0, and that it has
\* completed, with the later timestamp t1; the reports arrive in any order.
ReadReports == {[status |-> RUNNING, timestamp |-> <<1, 0>>],
                [status |-> COMPLETED, timestamp |-> <<2, 0>>]}

ReadStatusDtos(id) ==
    {[scheduler_id |-> id, service_name |-> "Service A", job_name |-> "EOD",
      status |-> r.status, timestamp |-> r.timestamp,
      execution_time_ms |-> None, error_message |-> None, metadata |-> None] :
        r \in ReadReports}

\* The limit a History call gives: none, or a number.
Limits == {None, Some(1), Some(10)}

\* new Date(item.timestamp) of a stored toISOString string.
FromISOString(s) == s[1] * 1440 + s[2] * 60 + s[3]

\* mapToEntity of a status-history item: the attributes of the item, its
\* timestamp parsed from the string the table holds.
MapToEntity(item) ==
    [item EXCEPT !.timestamp = Some(FromISOString(ToISOString(Val(item.timestamp))))]

\* The key that comes first among keys in the order of the range key, the
\* timestamp string: ascending when forward, else descending.
FirstKey(keys, forward) ==
    CHOOSE k \in keys :
        \A j \in keys \ {k} :
            IF forward
            THEN StringLess(ToISOString(k[2]), ToISOString(j[2]))
            ELSE StringLess(ToISOString(j[2]), ToISOString(k[2]))

\* A Query over the items of keys: in the order of the range key, and no
\* more than limit of them.
RECURSIVE QueryKeys(_, _, _)
QueryKeys(keys, forward, limit) ==
    IF keys = {} \/ limit = 0 THEN <<>>
    ELSE LET k == FirstKey(keys, forward)
         IN  <<k>> \o QueryKeys(keys \ {k}, forward, limit - 1)

\* A query that answers oldest first.
FindBySchedulerIdAscending(table, schedulerId, limit) ==
    LET keys == {k \in DOMAIN table : k[1] = schedulerId}
        ks == QueryKeys(keys, TRUE,
                        IF limit = None THEN DefaultHistoryLimit ELSE Val(limit))
    IN  [i \in DOMAIN ks |-> MapToEntity(table[ks[i]])]

\* findBySchedulerId(schedulerId, limit = 50): KeyConditionExpression
\* scheduler_id = :scheduler_id, ScanIndexForward false, Limit limit.
FindBySchedulerId(table, schedulerId, limit) ==
    LET keys == {k \in DOMAIN table : k[1] = schedulerId}
        ks == QueryKeys(keys, FALSE,
                        IF limit = None THEN DefaultHistoryLimit ELSE Val(limit))
    IN  [i \in DOMAIN ks |-> MapToEntity(table[ks[i]])]

InitRead == Start(0)

ReadRegister(id) ==
    /\ nCalls < MaxCallsRead
    /\ \E dto \in ReadRegisterDtos(id) : DoRegister(dto)

ReadReportStatus(id) ==
    /\ nCalls < MaxCallsRead
    /\ \E dto \in ReadStatusDtos(id) : DoReportStatus(dto)

ReadRecordHeartbeat(id) ==
    /\ nCalls < MaxCallsRead
    /\ DoRecordHeartbeat(id)

\* The variables a query leaves alone: all but the last outcome.
queryFrame == <<now, enabled, config, schedulers, history, nextUuid, notifications,
                okReports, nCalls, calls, workerVars>>

\* SchedulerService.getScheduler, called with id.
GetScheduler(id) ==
    /\ LET scheduler == FindById(schedulers, id)
       IN  IF scheduler = None
           THEN \* throw new NotFoundException
                last' = Outcome("Get", id, None, "NotFound", None)
           ELSE last' = Outcome("Get", id, None, "ok", scheduler)
    /\ UNCHANGED queryFrame

\* SchedulerService.getAllSchedulers: the items of the scan.
GetAllSchedulers ==
    /\ last' = Outcome("List", "", None, "ok",
                       Some({schedulers[id] : id \in DOMAIN schedulers}))
    /\ UNCHANGED queryFrame

\* SchedulerService.getSchedulerHistory, called with id and limit.
GetSchedulerHistory(id) ==
    /\ \E limit \in Limits :
          last' = Outcome("History", id, Some([limit |-> limit]), "ok",
                          Some(FindBySchedulerId(history, id, limit)))
    /\ UNCHANGED queryFrame

NextRead ==
    \/ Tick
    \/ \E id \in ReadIds : ReadRegister(id)
    \/ \E id \in ReadIds : ReadReportStatus(id)
    \/ \E id \in ReadIds : ReadRecordHeartbeat(id)
    \/ \E id \in ReadIds : GetScheduler(id)
    \/ GetAllSchedulers
    \/ \E id \in ReadIds : GetSchedulerHistory(id)

SpecRead == InitRead /\ [][NextRead]_vars

\* ------------------------------------------------ the history cleanup
\* The cleanup specification: the days at the time of the daily cleanup
\* timer, a service that registers and reports with the time of the report as
\* its timestamp, and the handler of the timer.
CleanupIds == {"svc-a-eod"}

CleanupStatusDtos(id) ==
    {[scheduler_id |-> id, service_name |-> "Service A", job_name |-> "EOD",
      status |-> st, timestamp |-> <<now, 0>>, execution_time_ms |-> None,
      error_message |-> None, metadata |-> None] : st \in WorkerStatuses}

InitCleanup == Start(CleanupCronHour * 60)

CleanupRegister(id) ==
    /\ nCalls < MaxCallsCleanup
    /\ id \notin DOMAIN schedulers
    /\ \E dto \in SweepRegisterDtos(id) : DoRegister(dto)

CleanupReportStatus(id) ==
    /\ nCalls < MaxCallsCleanup
    /\ \E dto \in CleanupStatusDtos(id) : DoReportStatus(dto)

\* cutoffDate.setDate(cutoffDate.getDate() - 30), on a clock without
\* daylight saving.
CutoffDate(t) == t - RetentionDays * 1440

\* SlackWorkerService.cleanupOldHistory: it computes the cutoff date and logs
\* it; the worker holds no status-history repository, and no call is made.
CleanupOldHistory ==
    /\ now % 60 = 0
    /\ HourOf(now) = CleanupCronHour
    /\ "E" \notin fired
    /\ fired' = fired \cup {"E"}
    /\ run' = Run("E", <<>>)
    /\ UNCHANGED <<now, enabled, config, schedulers, history, nextUuid, notifications,
                   last, okReports, nCalls, calls, staleQuery, sweep,
                   currentMessageTs, nextTs, nFailures>>

\* The same hour of the next day.  The cleanup timer has fired.
CleanupTick ==
    /\ "E" \in fired
    /\ now \div 1440 < MaxCleanupDays
    /\ now' = now + 1440
    /\ fired' = {}
    /\ UNCHANGED <<enabled, config, schedulers, history, nextUuid, notifications, last,
                   okReports, nCalls, calls, staleQuery, sweep, run,
                   currentMessageTs, nextTs, nFailures>>

NextCleanup ==
    \/ CleanupTick
    \/ \E id \in CleanupIds : CleanupRegister(id)
    \/ \E id \in CleanupIds : CleanupReportStatus(id)
    \/ CleanupOldHistory

SpecCleanup == InitCleanup /\ [][NextCleanup]_vars

\* ------------------------------------------- liveness and the sweep
\* The liveness specification: the sweep timer over the time points five
\* minutes apart at which it fires, and a service that registers, reports
\* and sends heartbeats at these time points, before or after the sweep.
LiveIds == {"svc-a-eod"}

InitLive == Start(0)

LiveRegister(id) ==
    /\ nCalls < MaxCallsLive
    /\ id \notin DOMAIN schedulers
    /\ \E dto \in SweepRegisterDtos(id) : DoRegister(dto)

LiveReportStatus(id) ==
    /\ nCalls < MaxCallsLive
    /\ id \in DOMAIN schedulers
    /\ \E dto \in SweepStatusDtos(id) : DoReportStatus(dto)

LiveRecordHeartbeat(id) ==
    /\ nCalls < MaxCallsLive
    /\ id \in DOMAIN schedulers
    /\ DoRecordHeartbeat(id)

\* The next time point of EVERY_5_MINUTES.  The sweep due now has run.  The
\* log of notification calls starts anew.
LiveTick ==
    /\ fired = Due(now) \cap {"D"}
    /\ now < MaxLiveMinute
    /\ now' = now + 5
    /\ fired' = {}
    /\ notifications' = <<>>
    /\ UNCHANGED <<enabled, config, schedulers, history, nextUuid, last, okReports,
                   nCalls, calls, staleQuery, sweep, run, currentMessageTs,
                   nextTs, nFailures>>

NextLive ==
    \/ LiveTick
    \/ \E id \in LiveIds : LiveRegister(id)
    \/ \E id \in LiveIds : LiveReportStatus(id)
    \/ \E id \in LiveIds : LiveRecordHeartbeat(id)
    \/ StaleSweep

SpecLive == InitLive /\ [][NextLive]_vars

\* ------------------------------------------- overlapping API calls
\* The writes specification: calls of registerScheduler, updateStatus and
\* updateHeartbeat on one id that overlap.  A call suspends at each store and
\* channel request; the steps are the requests executing.
WriteIds == {"svc-a-eod"}

\* A service reports that it runs, and later that it has failed.
WriteReports ==
    {[status |-> RUNNING, timestamp |-> <<1, 0>>, execution_time_ms |-> None,
      error_message |-> None, metadata |-> None],
     [status |-> FAILED, timestamp |-> <<2, 0>>,
      execution_time_ms |-> Some(15000), error_message |-> Some("timeout"),
      metadata |-> Some("records_processed=1000")]}

WriteStatusDtos(id) ==
    {[scheduler_id |-> id, service_name |-> "Service A", job_name |-> "EOD",
      status |-> r.status, timestamp |-> r.timestamp,
      execution_time_ms |-> r.execution_time_ms,
      error_message |-> r.error_message, metadata |-> r.metadata] :
        r \in WriteReports}

\* The calls that may be made on id, each with its input.
WriteCalls(id) ==
    {[op |-> "Register", dto |-> dto] : dto \in ReadRegisterDtos(id)}
    \cup {[op |-> "ReportStatus", dto |-> dto] : dto \in WriteStatusDtos(id)}
    \cup {[op |-> "RecordHeartbeat", dto |-> [scheduler_id |-> id]]}

\* The calls of updateStatus and updateHeartbeat whose write has executed,
\* and those of updateStatus among them.
Written == {i \in DOMAIN calls : calls[i].commit > 0}
Committed == {i \in Written : calls[i].op = "ReportStatus"}

InitWrites == Start(0)

\* A service registers before any other call is made.
RegisterFirst(id) ==
    /\ calls = <<>>
    /\ id \notin DOMAIN schedulers
    /\ \E dto \in SweepRegisterDtos(id) : DoRegister(dto)

\* A call is made: it sends the get of findById and suspends.  commit is the
\* place of the call's write among the writes of updateStatus and
\* updateHeartbeat calls that have executed.
StartCall(id) ==
    \E c \in WriteCalls(id) :
        /\ Len(calls) < MaxWrites
        /\ calls' = Append(calls, [op |-> c.op, pc |-> "findById",
                                   dto |-> c.dto, existing |-> None, t |-> 0,
                                   outcome |-> "none", returned |-> None,
                                   commit |-> 0])
        /\ UNCHANGED <<now, enabled, config, schedulers, history, nextUuid,
                       notifications, last, okReports, nCalls, workerVars>>

\* The get of findById executes, and the call resumes with its answer:
\* updateStatus and updateHeartbeat throw NotFoundException on null, and
\* otherwise send their write.
FindByIdAndResume(i) ==
    /\ calls[i].op \in {"ReportStatus", "RecordHeartbeat"}
    /\ calls[i].pc = "findById"
    /\ LET existing == FindById(schedulers, calls[i].dto.scheduler_id)
       IN  calls' = [calls EXCEPT
                        ![i].existing = existing,
                        ![i].t = now,
                        ![i].pc = IF existing = None THEN "done"
                                  ELSE IF calls[i].op = "ReportStatus" THEN "update"
                                  ELSE "updateHeartbeat",
                        ![i].outcome = IF existing = None THEN "NotFound"
                                       ELSE "none"]
    /\ UNCHANGED <<now, enabled, config, schedulers, history, nextUuid, notifications,
                   last, okReports, nCalls, workerVars>>

\* The UpdateItem of updateStatus executes at the store.
StatusUpdate(i) ==
    /\ calls[i].op = "ReportStatus"
    /\ calls[i].pc = "update"
    /\ LET dto == calls[i].dto
           updatedScheduler ==
               ApplyUpdates(ItemOrBlank(schedulers, dto.scheduler_id),
                            StatusUpdates(dto, calls[i].t), calls[i].t)
       IN  /\ schedulers' = PutScheduler(schedulers, updatedScheduler)
           /\ calls' = [calls EXCEPT ![i].pc = "createStatusHistory",
                                     ![i].returned = Some(updatedScheduler),
                                     ![i].commit = Cardinality(Written) + 1]
    /\ UNCHANGED <<now, enabled, config, history, nextUuid, notifications, last,
                   okReports, nCalls, workerVars>>

\* The put of createStatusHistory executes; the call goes on to the alert
\* when the reported status asks for one, and returns otherwise.
StatusCreateHistory(i) ==
    /\ calls[i].op = "ReportStatus"
    /\ calls[i].pc = "createStatusHistory"
    /\ history' = PutHistory(history, HistoryItem(Val(calls[i].returned), nextUuid))
    /\ nextUuid' = nextUuid + 1
    /\ calls' = IF AlertsOnStatus(calls[i].dto.status)
                THEN [calls EXCEPT ![i].pc = "sendFailedJobAlert"]
                ELSE [calls EXCEPT ![i].pc = "done", ![i].outcome = "ok"]
    /\ UNCHANGED <<now, enabled, config, schedulers, notifications, last, okReports,
                   nCalls, workerVars>>

\* sendFailedJobAlert ends: the call returns, or rethrows the error.
StatusAlert(i) ==
    /\ calls[i].op = "ReportStatus"
    /\ calls[i].pc = "sendFailedJobAlert"
    /\ \E result \in AlertResults :
          /\ notifications' = Append(notifications,
                                     FailedJobAlert(Val(calls[i].returned), result))
          /\ calls' = [calls EXCEPT ![i].pc = "done",
                                    ![i].outcome = IF result = "failed"
                                                   THEN "DeliveryFailure" ELSE "ok",
                                    ![i].returned = IF result = "failed" THEN None
                                                    ELSE calls[i].returned]
    /\ UNCHANGED <<now, enabled, config, schedulers, history, nextUuid, last,
                   okReports, nCalls, workerVars>>

\* The UpdateItem of updateHeartbeat executes at the store.
HeartbeatUpdate(i) ==
    /\ calls[i].op = "RecordHeartbeat"
    /\ calls[i].pc = "updateHeartbeat"
    /\ schedulers' = PutScheduler(schedulers,
                         HeartbeatItem(ItemOrBlank(schedulers,
                                                   calls[i].dto.scheduler_id),
                                       calls[i].t))
    /\ calls' = [calls EXCEPT ![i].pc = "done", ![i].outcome = "ok",
                              ![i].commit = Cardinality(Written) + 1]
    /\ UNCHANGED <<now, enabled, config, history, nextUuid, notifications, last,
                   okReports, nCalls, workerVars>>

NextWrites ==
    \/ \E id \in WriteIds : RegisterFirst(id)
    \/ \E id \in WriteIds : StartCall(id)
    \/ \E i \in DOMAIN calls : RegisterFindById(i)
    \/ \E i \in DOMAIN calls : RegisterResume(i)
    \/ \E i \in DOMAIN calls : RegisterUpdate(i)
    \/ \E i \in DOMAIN calls : RegisterCreate(i)
    \/ \E i \in DOMAIN calls : FindByIdAndResume(i)
    \/ \E i \in DOMAIN calls : StatusUpdate(i)
    \/ \E i \in DOMAIN calls : StatusCreateHistory(i)
    \/ \E i \in DOMAIN calls : StatusAlert(i)
    \/ \E i \in DOMAIN calls : HeartbeatUpdate(i)

SpecWrites == InitWrites /\ [][NextWrites]_vars

\* ------------------------------------------- retry after a failed edit
\* The retry specification: Triggers A, B and C over the hours of two days,
\* and beside them a note of the retry that is under way.  The note is taken
\* when an edit of Trigger B fails at an hour before the end hour; it is
\* dropped when a later call of a trigger fails, and when Trigger C runs
\* after the retry.
InitRetry == Start(0)

\* The note: whether Trigger B has fired inside its window since the failed
\* edit, and the handle of the message that run posted.
Retry(retried, handle) == [retried |-> retried, handle |-> handle]

\* The handle a run's post returned.
Posted(cs) ==
    IF \E i \in DOMAIN cs : cs[i].call = "sendStatusTable" /\ cs[i].result = "ok"
    THEN Some(nextTs) ELSE None

\* The note after a run of the handler of trigger with the effect e.
RetryAfter(trigger, e) ==
    IF /\ trigger = "B"
       /\ GetHours(now) < config.endHour
       /\ \E i \in DOMAIN e.calls : /\ e.calls[i].call = "updateStatusTable"
                                     /\ e.calls[i].result = "failed"
    THEN <<Retry(FALSE, None)>>
    ELSE IF Failures(e.calls) > 0 \/ calls = <<>> THEN <<>>
    ELSE IF ~calls[1].retried
    THEN IF trigger = "B" /\ enabled /\ InRefreshWindow(GetHours(now))
         THEN <<Retry(TRUE, Posted(e.calls))>>
         ELSE calls
    ELSE IF trigger = "C" THEN <<>>
    ELSE calls

RetryRun(trigger, e) ==
    /\ TriggerEffect(trigger, e)
    /\ calls' = RetryAfter(trigger, e)

RetryInitialStatusTable ==
    \E e \in InitialStatusTableRuns(currentMessageTs) : RetryRun("A", e)

RetryUpdateStatusTable ==
    \E e \in UpdateStatusTableRuns(currentMessageTs, GetHours(now)) :
        RetryRun("B", e)

RetryFinalStatusSummary ==
    \E e \in FinalStatusSummaryRuns(currentMessageTs, schedulers) :
        RetryRun("C", e)

\* The next time point, once Triggers A, B and C have fired where due.
RetryTick ==
    /\ fired = Due(now) \cap CycleTriggers
    /\ IF HourOf(now) < MaxHour
       THEN now' = now + 60
       ELSE /\ now \div 1440 < MaxDays
            /\ now' = (now \div 1440 + 1) * 1440
    /\ fired' = {}
    /\ notifications' = <<>>
    /\ UNCHANGED <<enabled, config, schedulers, history, nextUuid, last, okReports,
                   nCalls, calls, staleQuery, sweep, run, currentMessageTs,
                   nextTs, nFailures>>

NextRetry ==
    \/ RetryTick
    \/ \E i \in DOMAIN WorkerIds : WorkerRegister(i)
    \/ \E i \in DOMAIN WorkerIds : WorkerReportStatus(i)
    \/ RetryInitialStatusTable
    \/ RetryUpdateStatusTable
    \/ RetryFinalStatusSummary

SpecRetry == InitRetry /\ [][NextRetry]_vars

\* ------------------------------------------- the configured window
\* The configuration specification: the worker specification started with a
\* window other than the default one, and in a process whose timezone is not
\* that of the timers.
Windows == {<<StartHour, EndHour>>, <<1, 5>>}

\* The process runs in Asia/Jakarta, or in UTC: seven hours behind, which is
\* seventeen ahead modulo a day.
TzOffsets == {0, 17}

Configs == {Config(w[1], w[2], o) : w \in Windows, o \in TzOffsets}

InitConfig == \E c \in Configs : StartWith(0, c)

SpecConfig == InitConfig /\ [][NextWorker]_vars

\* ================================================================ claims
\* A step in which the API call op completes.
Completes(op) == nCalls' = nCalls + 1 /\ last'.op = op

\* The attributes of a record that a status report carries.
ReportedAttrs == {"service_name", "job_name", "status", "timestamp",
                  "execution_time_ms", "error_message", "metadata"}

\* The value a status report carries for an attribute (None when omitted).
Reported(dto, k) ==
    IF k = "timestamp" THEN Some(ParseDate(dto.timestamp))
    ELSE IF k \in {"service_name", "job_name", "status"} THEN Some(dto[k])
    ELSE dto[k]

\* C1: ReportStatus on an id without a record fails with NotFound and changes
\* nothing: no record, no history entry, no call of the notification service.
C1_ReportStatusUnknownId ==
    [][(Completes("ReportStatus") /\ last'.id \notin DOMAIN schedulers)
        => /\ last'.outcome = "NotFound"
           /\ schedulers' = schedulers
           /\ history' = history
           /\ notifications' = notifications]_vars

C1_Witness ==
    /\ last.op = "ReportStatus"
    /\ last.outcome = "NotFound"
    /\ last.id \notin DOMAIN schedulers
    /\ nCalls = MaxCalls

\* C2: every successful ReportStatus adds exactly one history entry for its
\* id, also when its timestamp equals that of an earlier report, and Register
\* and RecordHeartbeat add none.  (The claim as stated.)
C2_OneEntryPerReport ==
    [][\A id \in Ids :
         /\ (Completes("ReportStatus") /\ last'.id = id /\ last'.outcome = "ok")
               => Cardinality(HistoryOf(id))' = Cardinality(HistoryOf(id)) + 1
         /\ (Completes("Register") \/ Completes("RecordHeartbeat"))
               => Cardinality(HistoryOf(id))' = Cardinality(HistoryOf(id))]_vars

\* C3: after a successful ReportStatus the seven reported attributes of the
\* record are exactly the values of the call, absent where the call omits
\* them.  (The claim as stated.)
C3_RecordEqualsReport ==
    [][(Completes("ReportStatus") /\ last'.outcome = "ok")
        => \A k \in ReportedAttrs :
              schedulers'[last'.id][k] = Reported(Val(last'.dto), k)]_vars

\* C4: a successful ReportStatus with status failed makes exactly one
\* failed-job alert call for its id (posted whenever the channel is enabled),
\* whatever the status was before; a ReportStatus with another status makes
\* none.
C4_OneAlertPerFailedReport ==
    [][Completes("ReportStatus")
        => LET dto == Val(last'.dto)
           IN /\ (last'.outcome = "ok" /\ dto.status = FAILED)
                    => /\ Len(notifications') = Len(notifications) + 1
                       /\ SubSeq(notifications', 1, Len(notifications)) = notifications
                       /\ notifications'[Len(notifications')].kind = "failed_job"
                       /\ notifications'[Len(notifications')].scheduler_id = last'.id
                       /\ notifications'[Len(notifications')].result =
                             IF enabled THEN "posted" ELSE "skipped"
              /\ dto.status # FAILED => notifications' = notifications]_vars

\* A second failed report in a row was made and alerted again.
C4_Witness ==
    /\ last.op = "ReportStatus"
    /\ last.outcome = "ok"
    /\ Val(last.dto).status = FAILED
    /\ okReports[last.id] = 2
    /\ Len(notifications) = 2
    /\ \A i \in 1..2 : notifications[i].result = "posted"

\* C5: ReportStatus on a registered id returns the updated scheduler, also
\* when the failed-job alert cannot be delivered.  (The claim as stated.)
C5_DeliveryFailureNotPropagated ==
    [][(Completes("ReportStatus") /\ last'.id \in DOMAIN schedulers)
        => /\ last'.outcome = "ok"
           /\ last'.returned = Some(schedulers'[last'.id])]_vars

\* C6: Register never fails; on an id with a record it changes at most
\* service_name, job_name, owner_email, alert_user_id and updated_at and
\* leaves the history alone; on an id without a record it creates one with
\* status pending.
DescriptiveAttrs == {"service_name", "job_name", "owner_email", "alert_user_id"}

C6_RegisterIsUpsertOfDescription ==
    [][Completes("Register")
        => LET id == last'.id
           IN /\ last'.outcome = "ok"
              /\ id \in DOMAIN schedulers'
              /\ last'.returned = Some(schedulers'[id])
              /\ history' = history
              /\ notifications' = notifications
              /\ IF id \in DOMAIN schedulers
                 THEN \A k \in SchedulerAttrs \ (DescriptiveAttrs \cup {"updated_at"}) :
                         schedulers'[id][k] = schedulers[id][k]
                 ELSE schedulers'[id].status = Some(PENDING)]_vars

\* A second Register with another description, after a status report.
C6_Witness ==
    /\ last.op = "Register"
    /\ last.outcome = "ok"
    /\ last.id \in DOMAIN schedulers
    /\ schedulers[last.id].status = Some(COMPLETED)
    /\ schedulers[last.id].last_heartbeat # None
    /\ schedulers[last.id].service_name = Some(Val(last.dto).service_name)
    /\ HistoryOf(last.id) # {}
    /\ \E k \in HistoryOf(last.id) :
          history[k].status = Some(COMPLETED)

\* C7: no Register call fails: every call that has returned returned the
\* record of its id, and that record exists.  (The claim as stated.)
C7_RegisterNeverFails ==
    \A i \in DOMAIN calls :
        (calls[i].op = "Register" /\ calls[i].pc = "done")
           => /\ calls[i].outcome = "ok"
              /\ calls[i].returned # None
              /\ calls[i].dto.scheduler_id \in DOMAIN schedulers

\* Two Register calls on the same id overlapped before the id had a record,
\* and both have returned.
C7_Witness ==
    /\ Len(calls) = 2
    /\ \A i \in 1..2 : calls[i].pc = "done" /\ calls[i].existing = None
    /\ calls[1].dto.scheduler_id = calls[2].dto.scheduler_id

\* C8: RecordHeartbeat fails with NotFound on an id without a record and
\* creates nothing; on a registered id it changes only last_heartbeat and
\* updated_at and creates no history entry.
C8_HeartbeatFrame ==
    [][Completes("RecordHeartbeat")
        => LET id == last'.id
           IN /\ history' = history
              /\ notifications' = notifications
              /\ IF id \notin DOMAIN schedulers
                 THEN last'.outcome = "NotFound" /\ schedulers' = schedulers
                 ELSE /\ last'.outcome = "ok"
                      /\ DOMAIN schedulers' = DOMAIN schedulers
                      /\ \A k \in SchedulerAttrs \ {"last_heartbeat", "updated_at"} :
                            schedulers'[id][k] = schedulers[id][k]]_vars

\* A heartbeat on a running scheduler, a minute after its report.
C8_Witness ==
    /\ last.op = "RecordHeartbeat"
    /\ last.outcome = "ok"
    /\ schedulers[last.id].status = Some(RUNNING)
    /\ schedulers[last.id].last_heartbeat = Some(now)
    /\ now > 0
    /\ HistoryOf(last.id) # {}
    /\ \A k \in HistoryOf(last.id) : history[k].id = Some(1)

\* C9: FindStale(timeoutMinutes) returns exactly the schedulers that are
\* running, have a last_heartbeat, and whose last_heartbeat is more than
\* timeoutMinutes before now.
C9_FindStaleExact ==
    [][staleQuery'.seq # staleQuery.seq
        => staleQuery'.result =
              {id \in DOMAIN schedulers :
                  /\ schedulers[id].status = Some(RUNNING)
                  /\ schedulers[id].last_heartbeat # None
                  /\ now - Val(schedulers[id].last_heartbeat)
                        > staleQuery'.timeoutMinutes}]_vars

\* With timeout 10 a running scheduler whose heartbeat is 11 minutes old is
\* returned.
C9_Witness ==
    /\ staleQuery.timeoutMinutes = 10
    /\ \E id \in staleQuery.result :
          /\ schedulers[id].status = Some(RUNNING)
          /\ now - Val(schedulers[id].last_heartbeat) = 11

\* C10: a FindStale query and a whole sweep leave every scheduler record and
\* the history as they were; a stale scheduler stays running.
C10_StalenessMutatesNothing ==
    [][/\ staleQuery'.seq # staleQuery.seq
            => /\ schedulers' = schedulers
               /\ history' = history
               /\ \A id \in staleQuery'.result :
                     schedulers'[id].status = Some(RUNNING)
       /\ sweep'.n # sweep.n
            => /\ schedulers' = schedulers
               /\ history' = history
               /\ \A id \in sweep'.stale :
                     schedulers'[id].status = Some(RUNNING)]_vars

\* A sweep inside the window found a stale scheduler and posted its warning.
C10_Witness ==
    /\ sweep.ran
    /\ sweep.stale # {}
    /\ \A id \in sweep.stale : schedulers[id].status = Some(RUNNING)
    /\ notifications # <<>>
    /\ notifications[Len(notifications)].kind = "timeout_warning"
    /\ notifications[Len(notifications)].result = "posted"
    /\ notifications[Len(notifications)].scheduler_id \in sweep.stale

\* A step in which the handler of trigger runs.
Ran(trigger) == trigger \notin fired /\ trigger \in fired'

\* The places in the calls cs of the calls named call.
CallsOf(cs, call) == {i \in DOMAIN cs : cs[i].call = call}

\* The hours at which the refresh is to act: startHour < currentHour <= endHour.
RefreshHours == {h \in 0..23 : StartHour < h /\ h <= EndHour}

\* C11: after every run of Trigger C no handle is held, whatever the outcome
\* of the run.  (The claim as stated.)
C11_WindowCloseClearsHandle ==
    [][Ran("C") => currentMessageTs' = None]_vars

\* C12: Trigger C, with notifications enabled and the records read, sends the
\* all-clear summary if and only if there is a scheduler and every scheduler
\* is completed, whether or not a handle is held and whether or not the final
\* edit succeeds.  (The claim as stated.)
C12_AllClearIffAllCompleted ==
    [][(Ran("C") /\ enabled
            /\ run'.calls # <<>> /\ run'.calls[1].result = "ok")
        => (CallsOf(run'.calls, "sendAllClearSummary") # {}
               <=> (/\ DOMAIN schedulers # {}
                    /\ \A id \in DOMAIN schedulers :
                          schedulers[id].status = Some(COMPLETED)))]_vars

\* C13: Trigger B inside the window with no handle held does what Trigger A
\* does: no edit; once the records are read, exactly one post; and the handle
\* the post returns, a new one, becomes the held handle (none is held when the
\* post did not succeed).
C13_RefreshWithoutHandlePosts ==
    [][(Ran("B") /\ enabled /\ HourOf(now) \in RefreshHours
            /\ currentMessageTs = None)
        => LET cs == run'.calls
               posts == CallsOf(cs, "sendStatusTable")
           IN /\ CallsOf(cs, "updateStatusTable") = {}
              /\ Cardinality(posts) <= 1
              /\ (cs # <<>> /\ cs[1].call = "findAll" /\ cs[1].result = "ok")
                    => Cardinality(posts) = 1
              /\ \A i \in posts :
                    cs[i].result = "ok"
                       => /\ cs[i].handle = Some(nextTs)
                          /\ currentMessageTs' = cs[i].handle
              /\ (\A i \in posts : cs[i].result # "ok")
                    => currentMessageTs' = None]_vars

\* Trigger A's post failed at the start hour, and the refresh of a later hour
\* posted the table and holds the handle of that post.
C13_Witness ==
    /\ run.trigger = "B"
    /\ HourOf(now) \in RefreshHours
    /\ nextTs = 2
    /\ Len(run.calls) = 2
    /\ run.calls[2] = Call("sendStatusTable", Some(1), "ok")
    /\ currentMessageTs = Some(1)

\* C14: when the edit of Trigger B fails, no handle is held when the run
\* ends, the run posts nothing, and the failure stays inside the run.
C14_FailedEditDropsHandle ==
    [][(Ran("B") /\ \E i \in CallsOf(run'.calls, "updateStatusTable") :
                        run'.calls[i].result = "failed")
        => /\ currentMessageTs' = None
           /\ CallsOf(run'.calls, "sendStatusTable") = {}
           /\ nextTs' = nextTs
           /\ run'.outcome = "returned"]_vars

\* A refresh whose edit of the held message failed has ended.
C14_Witness ==
    /\ run.trigger = "B"
    /\ \E i \in CallsOf(run.calls, "updateStatusTable") :
          run.calls[i] = Call("updateStatusTable", Some(1), "failed")
    /\ currentMessageTs = None

\* C15: Trigger B with a handle held makes no post and at most one edit,
\* which is of the held handle; when the edit succeeds the held handle is as
\* before.
C15_RefreshWithHandleEdits ==
    [][(Ran("B") /\ currentMessageTs # None)
        => LET cs == run'.calls
               edits == CallsOf(cs, "updateStatusTable")
           IN /\ CallsOf(cs, "sendStatusTable") = {}
              /\ nextTs' = nextTs
              /\ Cardinality(edits) <= 1
              /\ \A i \in edits : cs[i].handle = currentMessageTs
              /\ (\E i \in edits : cs[i].result = "ok")
                    => currentMessageTs' = currentMessageTs]_vars

\* A refresh edited the held message and still holds its handle.
C15_Witness ==
    /\ run.trigger = "B"
    /\ \E i \in CallsOf(run.calls, "updateStatusTable") :
          /\ run.calls[i].result = "ok"
          /\ run.calls[i].handle = currentMessageTs
    /\ currentMessageTs # None

\* C16: Trigger B at an hour outside startHour < currentHour <= endHour makes
\* no call at all (no read, no post, no edit) and leaves the handle as it is.
C16_RefreshOnlyInsideWindow ==
    [][(Ran("B") /\ HourOf(now) \notin RefreshHours)
        => /\ run'.calls = <<>>
           /\ currentMessageTs' = currentMessageTs
           /\ nextTs' = nextTs]_vars

\* The refresh fired at the start hour, with notifications enabled and a
\* handle held, and did nothing.
C16_Witness ==
    /\ run.trigger = "B"
    /\ HourOf(now) = StartHour
    /\ enabled
    /\ currentMessageTs # None
    /\ run.calls = <<>>

\* C17: after a run of Trigger A (notifications enabled) a handle held before
\* the run is no longer held, and a handle held after it is the one this
\* run's post returned.  (The claim as stated.)
C17_NoHandleCarriedOver ==
    [][(Ran("A") /\ enabled)
        => /\ currentMessageTs # None => currentMessageTs' # currentMessageTs
           /\ currentMessageTs' # None
                 => \E i \in CallsOf(run'.calls, "sendStatusTable") :
                       /\ run'.calls[i].result = "ok"
                       /\ run'.calls[i].handle = currentMessageTs']_vars

\* C18: a sweep inside the window that got the stale schedulers from the
\* store makes exactly one timeout-warning call for each of them, also when
\* the call for another one fails.  (The claim as stated.)
C18_OneWarningPerStaleScheduler ==
    [][(Ran("D") /\ sweep'.ran
            /\ run'.calls # <<>> /\ run'.calls[1].result = "ok")
        => /\ Len(notifications') = Len(notifications) + Cardinality(sweep'.stale)
           /\ SubSeq(notifications', 1, Len(notifications)) = notifications
           /\ \A id \in sweep'.stale :
                 Cardinality({i \in (Len(notifications) + 1)..Len(notifications') :
                                 /\ notifications'[i].kind = "timeout_warning"
                                 /\ notifications'[i].scheduler_id = id}) = 1]_vars

\* C19: a sweep that fires before startHour:00 or after endHour:00 makes no
\* staleness query and sends no timeout warning.  (The claim as stated.)
C19_SweepOnlyInsideWindow ==
    [][(sweep'.n # sweep.n
            /\ (now % 1440 < StartHour * 60 \/ now % 1440 > EndHour * 60))
        => /\ ~sweep'.ran
           /\ run'.calls = <<>>
           /\ notifications' = notifications]_vars

\* C20: no run of Trigger A, B, C or D ends with an error for the timer,
\* whichever of its store and channel calls fails.
C20_TriggersNeverThrow ==
    [][\A trigger \in {"A", "B", "C", "D"} :
          Ran(trigger) => run'.trigger = trigger /\ run'.outcome = "returned"]_vars

\* The window close could not read the records, and returned.
C20_Witness ==
    /\ run.trigger = "C"
    /\ run.calls = <<Call("findAll", None, "failed")>>
    /\ run.outcome = "returned"

\* Trigger C has reset the handle in this cycle.
Closed == "C" \in DOMAIN calls /\ calls["C"].reset

\* C21: in every interleaving of the handlers of Triggers A, B and C,
\* Trigger B never calls the edit without a handle (the handle it checked
\* having been cleared by Trigger C meanwhile), and a run of Trigger B that
\* ends after the window-close reset of the cycle leaves no handle held.
\* (The claim as stated.)
C21_HandleUseSerialized ==
    [][/\ ("B" \in Suspended' /\ calls'["B"].pc = "updateStatusTable"
             /\ calls["B"].pc # "updateStatusTable")
            => calls'["B"].handle # None
       /\ ("B" \in Suspended /\ "B" \notin Suspended' /\ Closed')
            => currentMessageTs' = None]_vars

\* C22: on the first day, with notifications enabled and no call failing,
\* once Trigger A has run exactly one status-table message has been posted,
\* and every edit of a run targets the handle that post returned, whatever the
\* order of Triggers B and C at the end hour.  (The claim as stated.)
C22_OnePostEditedInPlace ==
    (enabled /\ nFailures = 0 /\ now < 1440)
        => /\ nextTs <= 2
           /\ ("A" \in fired \/ now > 0) => nextTs = 2
           /\ \A i \in CallsOf(run.calls, "updateStatusTable") :
                 run.calls[i].handle = Some(1)

\* The time points after Trigger C's run of the day and before Trigger A's
\* next run, with no timer left to fire.
OutsideWindow ==
    \/ HourOf(now) >= CloseCronHour /\ fired = Due(now)
    \/ now >= 1440 /\ HourOf(now) = OpenCronHour /\ "A" \notin fired

\* C23: no handle is held before the first post, and none is held outside the
\* window: after Trigger C's run at the end hour and before the next run of
\* Trigger A.  (The claim as stated.)
C23_NoHandleOutsideWindow ==
    /\ nextTs = 1 => currentMessageTs = None
    /\ OutsideWindow => currentMessageTs = None

\* A step in which the query op answers.
Answers(op) == last' # last /\ last'.op = op /\ nCalls' = nCalls

Min(a, b) == IF a <= b THEN a ELSE b

\* C24: History(id, limit) returns stored entries of that id only, as many
\* as there are but no more than limit (50 when no limit is given), latest
\* timestamp first, and every entry it leaves out is older than those it
\* returns.
C24_HistoryMostRecentFirst ==
    [][Answers("History")
        => LET id == last'.id
               limit == Val(last'.dto).limit
               res == Val(last'.returned)
           IN /\ Len(res) = Min(IF limit = None THEN DefaultHistoryLimit
                                 ELSE Val(limit),
                                 Cardinality(HistoryOf(id)))
              /\ \A i \in DOMAIN res :
                    /\ res[i].scheduler_id = Some(id)
                    /\ <<id, Val(res[i].timestamp)>> \in DOMAIN history
                    /\ res[i] = history[<<id, Val(res[i].timestamp)>>]
              /\ \A i, j \in DOMAIN res :
                    i < j => Val(res[i].timestamp) > Val(res[j].timestamp)
              /\ \A k \in HistoryOf(id) :
                    (\A i \in DOMAIN res : res[i].timestamp # Some(k[2]))
                       => \A i \in DOMAIN res : Val(res[i].timestamp) > k[2]]_vars

\* After Register, ReportStatus(running, t0) and ReportStatus(completed, t1)
\* with t0 < t1, History(id, 10) returned two entries, that of t1 first.
C24_Witness ==
    /\ last.op = "History"
    /\ Val(last.dto).limit = Some(10)
    /\ nCalls = 3
    /\ Len(Val(last.returned)) = 2
    /\ Val(last.returned)[1].status = Some(COMPLETED)
    /\ Val(last.returned)[1].id = Some(2)
    /\ Val(last.returned)[2].status = Some(RUNNING)
    /\ Val(last.returned)[2].id = Some(1)
    /\ Val(Val(last.returned)[2].timestamp) < Val(Val(last.returned)[1].timestamp)

\* C25: ReportStatus, RecordHeartbeat, Get and History on an id without a
\* record all answer NotFound.  (The claim as stated.)
C25_UnknownIdIsNotFound ==
    [][(/\ last' # last
        /\ last'.op \in {"ReportStatus", "RecordHeartbeat", "Get", "History"}
        /\ last'.id \notin DOMAIN schedulers)
        => last'.outcome = "NotFound"]_vars

\* C29: a record, once it exists, exists in every later state, under the
\* same key, with the same scheduler_id and the same created_at, whatever
\* call is made.
C29_RecordsKeepIdentity ==
    [][/\ \A id \in DOMAIN schedulers :
             /\ id \in DOMAIN schedulers'
             /\ schedulers'[id].created_at = schedulers[id].created_at
       /\ \A id \in DOMAIN schedulers' :
             schedulers'[id].scheduler_id = Some(id)]_vars

\* A scheduler created at minute 0 was reported and, a minute later,
\* registered again under another name, next to a second scheduler.
C29_Witness ==
    /\ last.op = "Register"
    /\ now = 1
    /\ DOMAIN schedulers = ReadIds
    /\ schedulers[last.id].created_at = Some(0)
    /\ schedulers[last.id].updated_at = Some(1)
    /\ schedulers[last.id].status # Some(PENDING)
    /\ schedulers[last.id].service_name = Some("Service B")

\* C26: a RecordHeartbeat and a ReportStatus on a registered id leave the
\* record's last_heartbeat at the time of the call; a record that Register
\* creates has none; and every other step (Register on a registered id, a
\* staleness query, a sweep, the clock) leaves last_heartbeat as it is.
C26_HeartbeatOnReportAndHeartbeat ==
    [][\A id \in DOMAIN schedulers' :
          IF id \notin DOMAIN schedulers
          THEN schedulers'[id].last_heartbeat = None
          ELSE IF /\ Completes("ReportStatus") \/ Completes("RecordHeartbeat")
                  /\ last'.id = id
               THEN schedulers'[id].last_heartbeat = Some(now)
               ELSE schedulers'[id].last_heartbeat =
                       schedulers[id].last_heartbeat]_vars

\* A heartbeat nine minutes or more after the status report moved
\* last_heartbeat from the time of the report to the time of the heartbeat.
C26_Witness ==
    /\ last.op = "RecordHeartbeat"
    /\ last.outcome = "ok"
    /\ okReports[last.id] = 1
    /\ now > StartOf(now)
    /\ schedulers[last.id].last_heartbeat = Some(now)
    /\ schedulers[last.id].created_at = Some(StartOf(now))
    /\ schedulers[last.id].status = Some(RUNNING)

\* C27: a ReportStatus on a registered scheduler succeeds and leaves the
\* record with the status it reports, whatever the status was before, and the
\* status of a record is always one of the four values.  (The claim as
\* stated.)
C27_AnyStatusFollowsAny ==
    [][/\ (Completes("ReportStatus") /\ last'.id \in DOMAIN schedulers)
            => /\ last'.outcome = "ok"
               /\ schedulers'[last'.id].status = Some(Val(last'.dto).status)
       /\ \A id \in DOMAIN schedulers' :
             /\ schedulers'[id].status # None
             /\ Val(schedulers'[id].status) \in SchedulerStatus]_vars

\* C28: no write makes the updated_at of a record smaller, in any
\* interleaving of calls on the same id, each of which takes its timestamp
\* before its write executes.  (The claim as stated.)
C28_UpdatedAtNeverDecreases ==
    [][\A id \in DOMAIN schedulers \cap DOMAIN schedulers' :
          Val(schedulers'[id].updated_at) >= Val(schedulers[id].updated_at)]_vars

\* C30: the failed-job alert built for a ReportStatus(failed, error_message
\* = m) on a registered scheduler carries m as its error message, and
\* addresses <@alert_user_id> when the record has an alert_user_id and
\* @channel when it has none.
C30_AlertCarriesErrorAndAddressee ==
    [][(/\ Completes("ReportStatus")
        /\ last'.id \in DOMAIN schedulers
        /\ enabled
        /\ Val(last'.dto).status = FAILED
        /\ Val(last'.dto).error_message # None)
        => LET alert == notifications'[Len(notifications')]
               record == schedulers'[last'.id]
           IN /\ Len(notifications') = Len(notifications) + 1
              /\ alert.kind = "failed_job"
              /\ alert.scheduler_id = last'.id
              /\ alert.blocks # None
              /\ Val(alert.blocks).error_message = Val(last'.dto).error_message
              /\ Val(alert.blocks).mention =
                    IF record.alert_user_id # None
                    THEN <<"<@", Val(record.alert_user_id), ">">>
                    ELSE <<"@channel">>]_vars

\* A scheduler registered with the alert user U123 reported failed with the
\* error message "timeout", and the alert that was posted names both.
C30_Witness ==
    /\ last.op = "ReportStatus"
    /\ last.outcome = "ok"
    /\ Val(last.dto).status = FAILED
    /\ Val(last.dto).error_message = Some("timeout")
    /\ schedulers[last.id].alert_user_id = Some("U123")
    /\ notifications # <<>>
    /\ notifications[Len(notifications)].result = "posted"
    /\ Val(notifications[Len(notifications)].blocks).error_message = Some("timeout")
    /\ Val(notifications[Len(notifications)].blocks).mention = <<"<@", "U123", ">">>

\* C31: after a run of the daily cleanup trigger no history entry with a
\* timestamp more than 30 days before the run remains, and no younger entry
\* has been removed.  (The claim as stated.)
C31_HistoryRetainedThirtyDays ==
    [][Ran("E")
        => /\ \A k \in DOMAIN history' : k[2] >= now - RetentionDays * 1440
           /\ \A k \in DOMAIN history :
                 k[2] >= now - RetentionDays * 1440 => k \in DOMAIN history']_vars

\* A step in which the call that completed last is made again, with the same
\* input.
Retries ==
    /\ last.op # "none"
    /\ Completes(last.op)
    /\ last'.id = last.id
    /\ last'.dto = last.dto

\* The attributes of a record that every write of a liveness signal changes.
LivenessAttrs == {"last_heartbeat", "updated_at"}

\* The scheduler records are the same apart from last_heartbeat and
\* updated_at.
SameRecords(before, after) ==
    /\ DOMAIN after = DOMAIN before
    /\ \A id \in DOMAIN before :
          \A k \in SchedulerAttrs \ LivenessAttrs : after[id][k] = before[id][k]

Warned ==
    {notifications'[i].scheduler_id :
        i \in {j \in (Len(notifications) + 1)..Len(notifications') :
                  notifications'[j].kind = "timeout_warning"}}

\* C33: at every sweep, a running scheduler whose last liveness signal is
\* not more than timeoutMinutes old is not in the stale set and gets no
\* timeout warning; and a timeout warning is made only for a scheduler that
\* is running and whose last liveness signal is more than timeoutMinutes old.
C33_HeartbeatsPreventFalseWarnings ==
    [][Ran("D")
        => /\ \A id \in DOMAIN schedulers :
                 (/\ schedulers[id].status = Some(RUNNING)
                  /\ schedulers[id].last_heartbeat # None
                  /\ now - Val(schedulers[id].last_heartbeat)
                        <= HeartbeatTimeoutMinutes)
                    => id \notin sweep'.stale /\ id \notin Warned
           /\ \A id \in Warned \cup sweep'.stale :
                 /\ id \in DOMAIN schedulers
                 /\ schedulers[id].status = Some(RUNNING)
                 /\ schedulers[id].last_heartbeat # None
                 /\ now - Val(schedulers[id].last_heartbeat)
                       > HeartbeatTimeoutMinutes
           /\ Len(notifications') >= Len(notifications)
           /\ SubSeq(notifications', 1, Len(notifications)) = notifications]_vars

\* A scheduler reported running at minute 0 and sent a heartbeat at minute 5;
\* the sweep of minute 15, ten minutes after the heartbeat, asked the store,
\* found nothing stale and warned nobody.
C33_Witness ==
    /\ now = 15
    /\ "D" \in fired
    /\ run = Run("D", <<Call("findStaleSchedulers", None, "ok")>>)
    /\ sweep.stale = {}
    /\ notifications = <<>>
    /\ last.op = "RecordHeartbeat"
    /\ \E id \in DOMAIN schedulers :
          /\ schedulers[id].status = Some(RUNNING)
          /\ schedulers[id].last_heartbeat = Some(5)
          /\ history[<<id, 2>>].status = Some(RUNNING)

\* A step in which the write of call i, suspended at pc, executes.
Writes(i, op, pc) ==
    /\ i \in DOMAIN calls
    /\ calls[i].op = op
    /\ calls[i].pc = pc
    /\ calls'[i].pc # pc

\* The record of id is the same before and after the step in all attributes
\* but those of named.
OnlyChanges(id, named) ==
    /\ id \in DOMAIN schedulers
    /\ id \in DOMAIN schedulers'
    /\ \A k \in SchedulerAttrs \ named : schedulers'[id][k] = schedulers[id][k]

\* The updateStatus call whose update executed last.
LastCommitted ==
    CHOOSE i \in Committed : \A j \in Committed : calls[j].commit <= calls[i].commit

\* C34: in every interleaving of calls on one id, the write of a
\* re-registration changes only the descriptive attributes and updated_at,
\* the write of a heartbeat only last_heartbeat and updated_at, and the write
\* of a status report only the attributes it carries, last_heartbeat and
\* updated_at; and at all times, so also once all calls have completed, the
\* record's status, timestamp and error_message are those that the status
\* report whose update executed last has written.
C34_PartialUpdatesNeverClobber ==
    [][/\ \A i \in DOMAIN calls :
             LET id == calls[i].dto.scheduler_id
             IN /\ Writes(i, "Register", "update")
                     => OnlyChanges(id, DescriptiveAttrs \cup {"updated_at"})
                /\ Writes(i, "RecordHeartbeat", "updateHeartbeat")
                     => OnlyChanges(id, LivenessAttrs)
                /\ Writes(i, "ReportStatus", "update")
                     => /\ OnlyChanges(id,
                               {k \in ReportedAttrs :
                                   Reported(calls[i].dto, k) # None}
                               \cup LivenessAttrs)
                        /\ \A k \in ReportedAttrs :
                              Reported(calls[i].dto, k) # None
                                 => schedulers'[id][k] = Reported(calls[i].dto, k)
       /\ Committed' # {}
            => LET dto == calls'[LastCommitted'].dto
                   record == schedulers'[dto.scheduler_id]
               IN /\ record.status = Some(dto.status)
                  /\ record.timestamp = Some(ParseDate(dto.timestamp))
                  /\ dto.error_message # None
                        => record.error_message = dto.error_message]_vars

\* A heartbeat read the record while it was pending; a report of failed read
\* it, and its update executed; then the write of the heartbeat executed.
\* Both calls have returned and the record is failed, with the error message
\* of the report.
C34_Witness ==
    /\ Len(calls) = 2
    /\ \A i \in DOMAIN calls : calls[i].pc = "done"
    /\ calls[1].op = "RecordHeartbeat"
    /\ calls[1].existing # None
    /\ Val(calls[1].existing).status = Some(PENDING)
    /\ calls[1].commit = 2
    /\ calls[2].op = "ReportStatus"
    /\ calls[2].commit = 1
    /\ schedulers["svc-a-eod"].status = Some(FAILED)
    /\ schedulers["svc-a-eod"].error_message = Some("timeout")

\* A step in which the clock leaves the time point hour:00.
Leaves(hour) == now' # now /\ now % 60 = 0 /\ HourOf(now) = hour

\* C35: for every configured window, Trigger A runs at startHour:00 only and
\* on every day, and Trigger C at endHour:00 only and on every day.  (The
\* claim as stated.)
C35_WindowTimersFollowConfiguration ==
    [][/\ Ran("A") => HourOf(now) = config.startHour /\ now % 60 = 0
       /\ Ran("C") => HourOf(now) = config.endHour /\ now % 60 = 0
       /\ Leaves(config.startHour) => "A" \in fired
       /\ Leaves(config.endHour) => "C" \in fired]_vars

\* C36: when Trigger B or Trigger D runs at hour h of the timezone of the
\* window, its gate compares h with the window hours: the refresh acts
\* exactly when startHour < h <= endHour, and the sweep asks for the stale
\* schedulers exactly when startHour <= h <= endHour, whatever the timezone
\* of the process.  (The claim as stated.)
C36_GatesUseWindowTimezone ==
    [][/\ ((Ran("B") /\ enabled) \/ Ran("D")) => GetHours(now) = HourOf(now)
       /\ (Ran("B") /\ enabled)
            => (run'.calls # <<>>
                  <=> (config.startHour < HourOf(now)
                       /\ HourOf(now) <= config.endHour))
       /\ Ran("D")
            => (sweep'.ran
                  <=> (config.startHour <= HourOf(now)
                       /\ HourOf(now) <= config.endHour))]_vars

\* C37: when an edit of Trigger B has failed at an hour before endHour and no
\* call of a trigger fails afterwards, the next firing of Trigger B inside the
\* window posts a new status-table message, and from then until Trigger C
\* runs the handle that post returned is the held handle, which every later
\* refresh inside the window edits.  (The claim as stated.)
C37_RetryByRegressionToTriggerA ==
    [][/\ (calls' # <<>> /\ calls'[1].retried)
            => /\ calls'[1].handle # None
               /\ currentMessageTs' = calls'[1].handle
       /\ (calls # <<>> /\ calls[1].retried /\ nFailures' = nFailures /\ Ran("B")
              /\ InRefreshWindow(GetHours(now)))
            => /\ CallsOf(run'.calls, "sendStatusTable") = {}
               /\ \E i \in CallsOf(run'.calls, "updateStatusTable") :
                     /\ run'.calls[i].handle = calls[1].handle
                     /\ run'.calls[i].result = "ok"]_vars

\* C38: a ReportStatus call that returns an error to its caller leaves the
\* schedulers table and the history as they were before the call.  (The claim
\* as stated.)
C38_ReportStatusAllOrNothing ==
    [][(Completes("ReportStatus") /\ last'.outcome # "ok")
        => /\ schedulers' = schedulers
           /\ history' = history]_vars

\* C39: a run of Trigger B with a handle held drops the handle only when its
\* edit call fails; when its read of the records fails, the handle held after
\* the run is the one held before.  (The claim as stated.)
C39_FailedReadKeepsHandle ==
    [][(Ran("B") /\ currentMessageTs # None)
        => /\ currentMessageTs' # currentMessageTs
                 => \E i \in CallsOf(run'.calls, "updateStatusTable") :
                       run'.calls[i].result = "failed"
           /\ (\E i \in CallsOf(run'.calls, "findAll") :
                    run'.calls[i].result = "failed")
                 => currentMessageTs' = currentMessageTs]_vars

\* C40: for every scheduler record and every timeout, Scheduler.isStale is
\* true exactly when FindStale with that timeout returns the record, whatever
\* the record's status, with or without a last_heartbeat, and at the boundary
\* now - last_heartbeat = timeout.  (The claim as stated.)
C40_StalenessPredicatesAgree ==
    [][staleQuery'.seq # staleQuery.seq
        => \A id \in DOMAIN schedulers :
              IsStale(schedulers[id], staleQuery'.timeoutMinutes, now)
                 <=> id \in staleQuery'.result]_vars

====
